---- MODULE Spec2Model ----
(***************************************************************************)
(* A model of the lisp evaluator of mm0-rs (src/mm0-rs/src/elab/lisp/      *)
(* eval.rs): the Uncons list cursor, head/tail with exponential backoff,   *)
(* the pattern matcher and the explicit-stack reduction engine.            *)
(*                                                                         *)
(* Rust vectors and slices are 0-based, TLA+ sequences are 1-based: the    *)
(* element es[i] of the source is es[i+1] here.                            *)
(***************************************************************************)
EXTENDS Integers, Sequences, FiniteSets, TLC

VARIABLES
  script,    \* the script being elaborated: its top-level items, in order
  todo,      \* top-level items of the script not yet passed to evaluate()
  active,    \* Evaluator::run's `active` State, or the outcome of the run
  stack,     \* Evaluator.stack
  ctx,       \* Evaluator.ctx
  file,      \* Evaluator.file
  lisp_ctx,  \* Elaborator.lisp_ctx: atom -> optional binding (<<>> or <<[fsp, val]>>)
  flags,     \* the Arc<AtomicBool> cells allocated so far (MatchCont valid flags)
  refs,      \* the Mutex<LispVal> cells allocated so far (LispKind::Ref)
  hist,      \* history: the matches and lambda activations in progress (see Hist)
  blocks,    \* history: the applications and blocks in progress (see Blocks)
  flags0,    \* history: the number of flags allocated before the current run
  tl_in,     \* tail harness: the proper list the harness started from
  tl_cur,    \* tail harness: the value after tl_k applications of tail
  tl_k,      \* tail harness: number of tail applications so far
  uc_d,      \* cursor harness: Uncons over a DottedList-shaped value
  uc_f,      \* cursor harness: Uncons over the flattened List
  uc_k,      \* cursor harness: number of uncons calls so far
  pm_p,      \* pattern harness: the pattern of the branch attempt
  pm_m,      \* pattern harness: pattern stack, variables and PatternState
  pm_n,      \* pattern harness: number of suspensions so far
  pm_b       \* pattern harness: the build, debug or release

evalVars ==
  <<script, todo, active, stack, ctx, file, lisp_ctx, flags, refs, hist, blocks,
    flags0>>
tailVars == <<tl_in, tl_cur, tl_k>>
consVars == <<uc_d, uc_f, uc_k>>
patVars == <<pm_p, pm_m, pm_n, pm_b>>
vars == <<script, todo, active, stack, ctx, file, lisp_ctx, flags, refs, hist, blocks,
          flags0,
          tl_in, tl_cur, tl_k, uc_d, uc_f, uc_k, pm_p, pm_m, pm_n, pm_b>>

(***************************************************************************)
(* Bounds of the model.                                                    *)
(***************************************************************************)
MaxTailLen == 13   \* longest proper list given to the tail harness
MaxConsLen == 4    \* most elements of a value given to the cursor harness
MaxCount == 3      \* largest n given to exactly(n) / at_least(n)
MaxLoop == 3       \* largest start value of the countdown scripts

\* usize is 64 bits wide; TLC's integers are not.  A wrapped subtraction
\* yields a value larger than the length of any list of the model, and
\* UsizeWrap stands for 2^64 in that role.
UsizeWrap == 1073741824

(***************************************************************************)
(* Values (LispKind).  A value is a record with a tag k.                   *)
(***************************************************************************)
Atom(a) == [k |-> "Atom", a |-> a]
Bool(b) == [k |-> "Bool", b |-> b]
Number(n) == [k |-> "Number", n |-> n]
String(s) == [k |-> "String", s |-> s]
List(es) == [k |-> "List", es |-> es]
DottedList(es, r) == [k |-> "DottedList", es |-> es, r |-> r]
Proc(p) == [k |-> "Proc", p |-> p]
Ref(id) == [k |-> "Ref", id |-> id]
SpanV(fsp, v) == [k |-> "Span", fsp |-> fsp, v |-> v]
UNDEF == [k |-> "Undef"]
NIL == List(<<>>)

FileSpan(f, sp) == [file |-> f, span |-> sp]

Builtin(f) == [t |-> "Builtin", f |-> f]
Lambda(pos, env, spec, code) ==
  [t |-> "Lambda", pos |-> pos, env |-> env, spec |-> spec, code |-> code]
MatchCont(valid) == [t |-> "MatchCont", valid |-> valid]

Named(fsp, a) == [t |-> "Named", fsp |-> fsp, a |-> a]
Unnamed(fsp) == [t |-> "Unnamed", fsp |-> fsp]

Exact(n) == [t |-> "Exact", n |-> n]
AtLeast(n) == [t |-> "AtLeast", n |-> n]

\* es[i..] and es[i..j] of the source (0-based, j exclusive)
SliceFrom(es, i) == SubSeq(es, i + 1, Len(es))
Slice(es, i, j) == SubSeq(es, i + 1, j)

\* unwrap: the peel through Ref and Span layers
RECURSIVE unwrap(_)
unwrap(e) ==
  CASE e.k = "Ref" -> unwrap(refs[e.id])
    [] e.k = "Span" -> unwrap(e.v)
    [] OTHER -> e

\* LispKind::truthy: every value except Bool(false)
truthy(e) == ~(e.k = "Bool" /\ e.b = FALSE)

(***************************************************************************)
(* usize arithmetic.                                                       *)
(***************************************************************************)
usize_underflows(a, b) == a < b
usize_sub(a, b) == IF a >= b THEN a - b ELSE UsizeWrap - (b - a)

(***************************************************************************)
(* Uncons(value, index).                                                   *)
(***************************************************************************)
Uncons(v, i) == [v |-> v, i |-> i]
Uncons_from(e) == Uncons(unwrap(e), 0)

RECURSIVE is_list(_)
is_list(u) ==
  CASE u.v.k = "List" -> TRUE
    [] u.v.k = "DottedList" -> is_list(Uncons_from(u.v.r))
    [] OTHER -> FALSE

\* exactly(n) as a release build computes it (usize subtraction wraps)
RECURSIVE exactly(_, _)
exactly(u, n) ==
  CASE u.v.k = "List" -> u.i + n = Len(u.v.es)
    [] u.v.k = "DottedList" /\ u.i + n <= Len(u.v.es) -> FALSE
    [] u.v.k = "DottedList" ->
         exactly(Uncons_from(u.v.r), usize_sub(n, Len(u.v.es)))
    [] OTHER -> FALSE

\* exactly(n) overflows its usize subtraction (a debug build panics)
RECURSIVE exactly_panics(_, _)
exactly_panics(u, n) ==
  /\ u.v.k = "DottedList"
  /\ u.i + n > Len(u.v.es)
  /\ \/ usize_underflows(n, Len(u.v.es))
     \/ exactly_panics(Uncons_from(u.v.r), usize_sub(n, Len(u.v.es)))

\* the List arm of at_least
at_least_List(u, n) == u.i + n = Len(u.v.es)

\* at_least(n) as a release build computes it
RECURSIVE at_least(_, _)
at_least(u, n) ==
  CASE u.v.k = "List" -> at_least_List(u, n)
    [] u.v.k = "DottedList" /\ u.i + n <= Len(u.v.es) ->
         is_list(Uncons_from(u.v.r))
    [] u.v.k = "DottedList" ->
         at_least(Uncons_from(u.v.r), usize_sub(n, Len(u.v.es)))
    [] OTHER -> FALSE

RECURSIVE at_least_panics(_, _)
at_least_panics(u, n) ==
  /\ u.v.k = "DottedList"
  /\ u.i + n > Len(u.v.es)
  /\ \/ usize_underflows(n, Len(u.v.es))
     \/ at_least_panics(Uncons_from(u.v.r), usize_sub(n, Len(u.v.es)))

\* uncons: <<>> for None, else <<element, cursor after the call>>;
\* uncons_cursor is the cursor left behind when None is returned
RECURSIVE uncons(_)
uncons(u) ==
  CASE u.v.k = "List" ->
         IF u.i < Len(u.v.es) THEN <<u.v.es[u.i + 1], Uncons(u.v, u.i + 1)>>
         ELSE <<>>
    [] u.v.k = "DottedList" ->
         IF u.i < Len(u.v.es) THEN <<u.v.es[u.i + 1], Uncons(u.v, u.i + 1)>>
         ELSE uncons(Uncons_from(u.v.r))
    [] OTHER -> <<>>

RECURSIVE uncons_cursor(_)
uncons_cursor(u) ==
  IF u.v.k = "DottedList" /\ u.i >= Len(u.v.es)
  THEN uncons_cursor(Uncons_from(u.v.r))
  ELSE u

as_lisp(u) ==
  IF u.i = 0 THEN u.v
  ELSE CASE u.v.k = "List" /\ u.i = Len(u.v.es) -> NIL
         [] u.v.k = "List" -> List(SliceFrom(u.v.es, u.i))
         [] u.v.k = "DottedList" /\ u.i = Len(u.v.es) -> u.v.r
         [] u.v.k = "DottedList" -> DottedList(SliceFrom(u.v.es, u.i), u.v.r)

(***************************************************************************)
(* head and tail.  A result is <<"Ok", value>> or <<"Err", message>>.      *)
(***************************************************************************)
Ok(v) == <<"Ok", v>>
Err(m) == <<"Err", m>>

\* head without the descent into the tail of a DottedList whose prefix is empty
RECURSIVE head_flat(_)
head_flat(e) ==
  CASE e.k = "Ref" -> head_flat(refs[e.id])
    [] e.k = "Span" -> head_flat(e.v)
    [] e.k = "List" /\ e.es = <<>> -> Err("evaluating 'hd ()'")
    [] e.k = "List" -> Ok(e.es[1])
    [] e.k = "DottedList" /\ e.es = <<>> -> Err("expected a list")
    [] e.k = "DottedList" -> Ok(e.es[1])
    [] OTHER -> Err("expected a list")

RECURSIVE head(_)
head(e) ==
  CASE e.k = "Ref" -> head(refs[e.id])
    [] e.k = "Span" -> head(e.v)
    [] e.k = "List" /\ e.es = <<>> -> Err("evaluating 'hd ()'")
    [] e.k = "List" -> Ok(e.es[1])
    [] e.k = "DottedList" /\ e.es = <<>> -> head(e.r)
    [] e.k = "DottedList" -> Ok(e.es[1])
    [] OTHER -> Err("expected a list")

\* r is the final constructor: "List", or the tail value of a DottedList
backoff_end(es, i, r) ==
  IF r.k = "ListCtor" THEN List(SliceFrom(es, i))
  ELSE DottedList(SliceFrom(es, i), r.r)

\* the backoff with chunks of one element
RECURSIVE exponential_backoff_linear(_, _, _)
exponential_backoff_linear(es, i, r) ==
  LET j == i + 1 IN
  IF j >= Len(es) THEN backoff_end(es, i, r)
  ELSE DottedList(Slice(es, i, j), exponential_backoff_linear(es, j, r))

RECURSIVE exponential_backoff(_, _, _)
exponential_backoff(es, i, r) ==
  LET j == 2 * i IN
  IF j >= Len(es) THEN backoff_end(es, i, r)
  ELSE DottedList(Slice(es, i, j), exponential_backoff(es, j, r))

ListCtor == [k |-> "ListCtor"]
DottedCtor(r) == [k |-> "DottedCtor", r |-> r]

RECURSIVE tail(_)
tail(e) ==
  CASE e.k = "Ref" -> tail(refs[e.id])
    [] e.k = "Span" -> tail(e.v)
    [] e.k = "List" /\ e.es = <<>> -> Err("evaluating 'tl ()'")
    [] e.k = "List" -> Ok(exponential_backoff(e.es, 1, ListCtor))
    [] e.k = "DottedList" /\ e.es = <<>> -> tail(e.r)
    [] e.k = "DottedList" -> Ok(exponential_backoff(e.es, 1, DottedCtor(e.r)))
    [] OTHER -> Err("expected a list")

(***************************************************************************)
(* IR, branches and patterns (super::parser).  Option<T> is <<>> or <<x>>. *)
(***************************************************************************)
None == <<>>
Some(x) == <<x>>

Local(i) == [ir |-> "Local", i |-> i]
Global(sp, a) == [ir |-> "Global", sp |-> sp, a |-> a]
Const(val) == [ir |-> "Const", val |-> val]
ListIR(sp, ls) == [ir |-> "List", sp |-> sp, ls |-> ls]
DottedListIR(ls, e) == [ir |-> "DottedList", ls |-> ls, e |-> e]
AppIR(sp1, sp2, f, es) == [ir |-> "App", sp1 |-> sp1, sp2 |-> sp2, f |-> f, es |-> es]
IfIR(c, t, e) == [ir |-> "If", c |-> c, t |-> t, e |-> e]
DefIR(x, val) == [ir |-> "Def", x |-> x, val |-> val]
EvalIR(es) == [ir |-> "Eval", es |-> es]
LambdaIR(sp, spec, code) == [ir |-> "Lambda", sp |-> sp, spec |-> spec, code |-> code]
MatchIR(sp, e, brs) == [ir |-> "Match", sp |-> sp, e |-> e, brs |-> brs]

Branch(pat, nvars, cont, eval) ==
  [pat |-> pat, vars |-> nvars, cont |-> cont, eval |-> eval]

PSkip == [p |-> "Skip"]
PAtom(i) == [p |-> "Atom", i |-> i]
PQuoteAtom(a) == [p |-> "QuoteAtom", a |-> a]
PString(s) == [p |-> "String", s |-> s]
PBool(b) == [p |-> "Bool", b |-> b]
PNumber(n) == [p |-> "Number", n |-> n]
PQExprAtom(a) == [p |-> "QExprAtom", a |-> a]
PDottedList(ps, r) == [p |-> "DottedList", ps |-> ps, r |-> r]
PList(ps, n) == [p |-> "List", ps |-> ps, n |-> n]
PAnd(ps) == [p |-> "And", ps |-> ps]
POr(ps) == [p |-> "Or", ps |-> ps]
PNot(ps) == [p |-> "Not", ps |-> ps]
PTest(sp, i, ps) == [p |-> "Test", sp |-> sp, i |-> i, ps |-> ps]

(***************************************************************************)
(* The pattern matcher: Elaborator::pattern_match.                         *)
(***************************************************************************)
DotList(n) == [d |-> "List", n |-> n]
DotDottedList(p) == [d |-> "DottedList", p |-> p]

PsEval(p, e) == [ps |-> "Eval", p |-> p, e |-> e]
PsRet(b) == [ps |-> "Ret", b |-> b]
PsList(u, it, dot) == [ps |-> "List", u |-> u, it |-> it, dot |-> dot]
PsBinary(or, out, e, it) == [ps |-> "Binary", or |-> or, out |-> out, e |-> e, it |-> it]
PsReturn(r) == [ps |-> "Return", r |-> r]

PfList(u, it, dot) == [pf |-> "List", u |-> u, it |-> it, dot |-> dot]
PfBinary(or, out, e, it) == [pf |-> "Binary", or |-> or, out |-> out, e |-> e, it |-> it]

Push(stk, x) == Append(stk, x)
Top(stk) == stk[Len(stk)]
Pop(stk) == SubSeq(stk, 1, Len(stk) - 1)

\* the machine of pattern_match: its pattern stack, the vars slice and `active`
PM(pstack, pvars, st) == [stack |-> pstack, vars |-> pvars, st |-> st]

\* PatternState::Eval(p, e)
PatEval(m, p, e) ==
  LET w == unwrap(e) IN
  CASE p.p = "Skip" -> [m EXCEPT !.st = PsRet(TRUE)]
    [] p.p = "Atom" -> [m EXCEPT !.vars[p.i + 1] = e, !.st = PsRet(TRUE)]
    [] p.p = "QuoteAtom" -> [m EXCEPT !.st = PsRet(w.k = "Atom" /\ w.a = p.a)]
    [] p.p = "String" -> [m EXCEPT !.st = PsRet(w.k = "String" /\ w.s = p.s)]
    [] p.p = "Bool" -> [m EXCEPT !.st = PsRet(w.k = "Bool" /\ w.b = p.b)]
    [] p.p = "Number" -> [m EXCEPT !.st = PsRet(w.k = "Number" /\ w.n = p.n)]
    [] p.p = "QExprAtom" ->
         [m EXCEPT !.st = PsRet(
            \/ w.k = "Atom" /\ w.a = p.a
            \/ /\ w.k = "List" /\ Len(w.es) = 1
               /\ unwrap(w.es[1]).k = "Atom" /\ unwrap(w.es[1]).a = p.a)]
    [] p.p = "DottedList" ->
         [m EXCEPT !.st = PsList(Uncons_from(e), p.ps, DotDottedList(p.r))]
    [] p.p = "List" ->
         [m EXCEPT !.st = PsList(Uncons_from(e), p.ps, DotList(p.n))]
    [] p.p = "And" -> [m EXCEPT !.st = PsBinary(FALSE, FALSE, e, p.ps)]
    [] p.p = "Or" -> [m EXCEPT !.st = PsBinary(TRUE, TRUE, e, p.ps)]
    [] p.p = "Not" -> [m EXCEPT !.st = PsBinary(TRUE, FALSE, e, p.ps)]
    [] p.p = "Test" ->
         [m EXCEPT !.stack = Push(m.stack, PfBinary(FALSE, FALSE, e, p.ps)),
                   !.st = PsReturn([t |-> "TestPending", sp |-> p.sp, i |-> p.i])]

\* PatternState::Ret(b) with a Binary frame that always goes on to its next
\* sub-pattern
PatRet_all(m, b) ==
  IF m.stack = <<>> THEN [m EXCEPT !.st = PsReturn([t |-> "Ok", b |-> b])]
  ELSE LET fr == Top(m.stack) IN
       LET n == [m EXCEPT !.stack = Pop(m.stack)] IN
       IF fr.pf = "List"
       THEN IF b THEN [n EXCEPT !.st = PsList(fr.u, fr.it, fr.dot)]
            ELSE [n EXCEPT !.st = PsRet(FALSE)]
       ELSE [n EXCEPT !.st = PsBinary(fr.or, fr.out, fr.e, fr.it)]

\* PatternState::Ret(b)
PatRet(m, b) ==
  IF m.stack = <<>> THEN [m EXCEPT !.st = PsReturn([t |-> "Ok", b |-> b])]
  ELSE LET fr == Top(m.stack) IN
       LET n == [m EXCEPT !.stack = Pop(m.stack)] IN
       IF fr.pf = "List"
       THEN IF b THEN [n EXCEPT !.st = PsList(fr.u, fr.it, fr.dot)]
            ELSE [n EXCEPT !.st = PsRet(FALSE)]
       ELSE IF b # fr.or THEN [n EXCEPT !.st = PsBinary(fr.or, fr.out, fr.e, fr.it)]
            ELSE [n EXCEPT !.st = PsRet(fr.out)]

\* PatternState::List(u, it, dot); a debug build panics where usize overflows
PatList(m, u, it, dot, build) ==
  IF it = <<>>
  THEN CASE dot.d = "List" /\ dot.n = None ->
              IF build = "debug" /\ exactly_panics(u, 0)
              THEN [m EXCEPT !.st = PsReturn([t |-> "Panic"])]
              ELSE [m EXCEPT !.st = PsRet(exactly(u, 0))]
         [] dot.d = "List" /\ dot.n # None ->
              IF build = "debug" /\ at_least_panics(u, dot.n[1])
              THEN [m EXCEPT !.st = PsReturn([t |-> "Panic"])]
              ELSE [m EXCEPT !.st = PsRet(at_least(u, dot.n[1]))]
         [] dot.d = "DottedList" -> [m EXCEPT !.st = PsEval(dot.p, as_lisp(u))]
  ELSE IF uncons(u) = <<>> THEN [m EXCEPT !.st = PsRet(FALSE)]
       ELSE [m EXCEPT !.stack = Push(m.stack, PfList(uncons(u)[2], Tail(it), dot)),
                      !.st = PsEval(Head(it), uncons(u)[1])]

\* PatternState::Binary returning `outcome` when its iterator is exhausted
PatBinary_out(m, or, out, e, it) ==
  IF it = <<>> THEN [m EXCEPT !.st = PsRet(out)]
  ELSE [m EXCEPT !.stack = Push(m.stack, PfBinary(or, out, e, Tail(it))),
                 !.st = PsEval(Head(it), e)]

\* PatternState::Binary(or, out, e, it)
PatBinary(m, or, out, e, it) ==
  IF it = <<>> THEN [m EXCEPT !.st = PsRet(~out)]
  ELSE [m EXCEPT !.stack = Push(m.stack, PfBinary(or, out, e, Tail(it))),
                 !.st = PsEval(Head(it), e)]

\* one iteration of the loop of pattern_match
PatStep(m, build) ==
  CASE m.st.ps = "Eval" -> PatEval(m, m.st.p, m.st.e)
    [] m.st.ps = "Ret" -> PatRet(m, m.st.b)
    [] m.st.ps = "List" -> PatList(m, m.st.u, m.st.it, m.st.dot, build)
    [] m.st.ps = "Binary" -> PatBinary(m, m.st.or, m.st.out, m.st.e, m.st.it)

\* the loop, run until it returns Ok(b) or Err(TestPending(sp, i)) (or panics);
\* the result is the machine at that point, its st holding the returned value
RECURSIVE pattern_match(_, _)
pattern_match(m, build) ==
  IF m.st.ps = "Return" THEN m ELSE pattern_match(PatStep(m, build), build)

(***************************************************************************)
(* The reduction engine: Evaluator::run.                                   *)
(***************************************************************************)
\* enum State; SRet carries, beside the value, whether the returned Arc is
\* known to have no other owner (what Arc::try_unwrap tests)
SEval(ir) == [s |-> "Eval", ir |-> ir]
SRet(v, uniq) == [s |-> "Ret", v |-> v, uniq |-> uniq]
SList(sp, vec, it) == [s |-> "List", sp |-> sp, vec |-> vec, it |-> it]
SDottedList(vec, it, r) == [s |-> "DottedList", vec |-> vec, it |-> it, r |-> r]
SApp(sp1, sp2, f, args, it) ==
  [s |-> "App", sp1 |-> sp1, sp2 |-> sp2, f |-> f, args |-> args, it |-> it]
SMatch(sp, e, it) == [s |-> "Match", sp |-> sp, e |-> e, it |-> it]
SPattern(sp, e, it, br, pstack, pvars, st) ==
  [s |-> "Pattern", sp |-> sp, e |-> e, it |-> it, br |-> br,
   pstack |-> pstack, vars |-> pvars, st |-> st]
SMapProc(sp1, sp2, f, us, vec) ==
  [s |-> "MapProc", sp1 |-> sp1, sp2 |-> sp2, f |-> f, us |-> us, vec |-> vec]
\* the outcomes of run: Ok(ret), Err(ElabError), or a Rust panic
SDone(v) == [s |-> "Done", v |-> v]
SError(pos, msg, info) == [s |-> "Error", pos |-> pos, msg |-> msg, info |-> info]
SPanic(msg) == [s |-> "Panic", msg |-> msg]

\* enum Stack
FList(sp, vec, it) == [f |-> "List", sp |-> sp, vec |-> vec, it |-> it]
FDottedList(vec, it, e) == [f |-> "DottedList", vec |-> vec, it |-> it, e |-> e]
FDottedList2(vec) == [f |-> "DottedList2", vec |-> vec]
FApp(sp1, sp2, es) == [f |-> "App", sp1 |-> sp1, sp2 |-> sp2, es |-> es]
FApp2(sp1, sp2, fn, vec, it) ==
  [f |-> "App2", sp1 |-> sp1, sp2 |-> sp2, fn |-> fn, vec |-> vec, it |-> it]
FIf(e1, e2) == [f |-> "If", e1 |-> e1, e2 |-> e2]
FDef(x) == [f |-> "Def", x |-> x]
FEval(it) == [f |-> "Eval", it |-> it]
FMatch(sp, it) == [f |-> "Match", sp |-> sp, it |-> it]
FTestPattern(sp, e, it, br, pstack, pvars) ==
  [f |-> "TestPattern", sp |-> sp, e |-> e, it |-> it, br |-> br,
   pstack |-> pstack, vars |-> pvars]
FDrop == [f |-> "Drop_"]
FRet(fsp, pos, old, code) ==
  [f |-> "Ret", fsp |-> fsp, pos |-> pos, old |-> old, code |-> code]
FMatchCont(sp, e, it, valid) ==
  [f |-> "MatchCont", sp |-> sp, e |-> e, it |-> it, valid |-> valid]
FMapProc(sp1, sp2, fn, us, vec) ==
  [f |-> "MapProc", sp1 |-> sp1, sp2 |-> sp2, fn |-> fn, us |-> us, vec |-> vec]

supports_def(fr) == fr.f = "App2" \/ fr.f = "Eval"

\* the evaluator and the part of the elaborator it works on, as one record
Cur ==
  [active |-> active, stack |-> stack, ctx |-> ctx, file |-> file,
   lisp_ctx |-> lisp_ctx, flags |-> flags, refs |-> refs]

Becomes(n) ==
  /\ active' = n.active /\ stack' = n.stack /\ ctx' = n.ctx /\ file' = n.file
  /\ lisp_ctx' = n.lisp_ctx /\ flags' = n.flags /\ refs' = n.refs

fspan(m, sp) == FileSpan(m.file, sp)

\* the label of a stack trail entry
LabelBase(str) == [l |-> "base", a |-> str]
LabelNamed(a) == [l |-> "name()", a |-> a]
LabelFn == [l |-> "[fn]", a |-> ""]

\* the loop of make_stack_err over stack[1..i], from the top down
RECURSIVE StackTrail(_, _, _, _, _)
StackTrail(stk, i, fsp, base, info) ==
  IF i = 0 THEN [fspan |-> fsp, info |-> info]
  ELSE IF stk[i].f = "Ret"
       THEN LET pos == stk[i].pos IN
            StackTrail(stk, i - 1, pos.fsp,
                       IF pos.t = "Named" THEN LabelNamed(pos.a) ELSE LabelFn,
                       Append(info, <<fsp, base>>))
       ELSE StackTrail(stk, i - 1, fsp, base, info)

make_stack_err(m, sp, base, err) ==
  LET r == StackTrail(m.stack, Len(m.stack), fspan(m, sp), base, <<>>) IN
  SError(r.fspan.span, err, r.info)

\* Evaluator::err, and the throw! macro of run
err(m, sp, e) == make_stack_err(m, sp, LabelBase("error occurred here"), e)
Throw(m, sp, e) == [m EXCEPT !.active = err(m, sp, e)]

proc_pos(m, sp) ==
  IF m.stack # <<>> /\ Top(m.stack).f = "Def" /\ Top(m.stack).x # None
  THEN Named(fspan(m, Top(m.stack).x[1][1]), Top(m.stack).x[1][2])
  ELSE Unnamed(fspan(m, sp))

\* BuiltinProc::from_str, for the primitives of the model
BuiltinNames ==
  {"begin", "apply", "+", "-", "=", "<", "not", "and", "or", "list", "cons",
   "hd", "tl", "map", "ref!", "get!", "set!"}
BuiltinProc_from_str(str) == IF str \in BuiltinNames THEN Some(str) ELSE None

PushFrame(m, fr, st) == [m EXCEPT !.stack = Push(m.stack, fr), !.active = st]

\* IR::Global(sp, a) that synthesises the builtin at every lookup
EvalGlobal_nocache(m, sp, a) ==
  IF m.lisp_ctx[a] = None
  THEN IF BuiltinProc_from_str(a) = None
       THEN Throw(m, sp, "Reference to unbound variable")
       ELSE [m EXCEPT !.active = SRet(Proc(Builtin(BuiltinProc_from_str(a)[1])), TRUE)]
  ELSE [m EXCEPT !.active = SRet(m.lisp_ctx[a][1].val, FALSE)]

\* IR::Global(sp, a)
EvalGlobal(m, sp, a) ==
  IF m.lisp_ctx[a] = None
  THEN IF BuiltinProc_from_str(a) = None
       THEN Throw(m, sp, "Reference to unbound variable")
       ELSE LET ret == Proc(Builtin(BuiltinProc_from_str(a)[1])) IN
            [m EXCEPT !.lisp_ctx[a] = Some([fsp |-> None, val |-> ret]),
                      !.active = SRet(ret, FALSE)]
  ELSE [m EXCEPT !.active = SRet(m.lisp_ctx[a][1].val, FALSE)]

\* State::Eval(ir)
RunEval(m, ir) ==
  CASE ir.ir = "Local" -> [m EXCEPT !.active = SRet(m.ctx[ir.i + 1], FALSE)]
    [] ir.ir = "Global" -> EvalGlobal(m, ir.sp, ir.a)
    [] ir.ir = "Const" -> [m EXCEPT !.active = SRet(ir.val, FALSE)]
    [] ir.ir = "List" -> [m EXCEPT !.active = SList(ir.sp, <<>>, ir.ls)]
    [] ir.ir = "DottedList" -> [m EXCEPT !.active = SDottedList(<<>>, ir.ls, ir.e)]
    [] ir.ir = "App" -> PushFrame(m, FApp(ir.sp1, ir.sp2, ir.es), SEval(ir.f))
    [] ir.ir = "If" -> PushFrame(m, FIf(ir.t, ir.e), SEval(ir.c))
    [] ir.ir = "Def" -> PushFrame(m, FDef(ir.x), SEval(ir.val))
    [] ir.ir = "Eval" ->
         IF ir.es = <<>> THEN [m EXCEPT !.active = SRet(UNDEF, FALSE)]
         ELSE PushFrame(m, FEval(Tail(ir.es)), SEval(Head(ir.es)))
    [] ir.ir = "Lambda" ->
         [m EXCEPT !.active =
            SRet(Proc(Lambda(proc_pos(m, ir.sp), m.ctx, ir.spec, ir.code)), TRUE)]
    [] ir.ir = "Match" -> PushFrame(m, FMatch(ir.sp, ir.brs), SEval(ir.e))

\* the valid flags owned by MatchCont procedure values reachable from a value
\* (fuel bounds the descent through reference cells, which may be cyclic)
RECURSIVE FlagsIn(_, _, _)
FlagsInSeq(q, cells, fuel) == UNION {FlagsIn(q[i], cells, fuel) : i \in DOMAIN q}
FlagsIn(v, cells, fuel) ==
  CASE v.k = "Proc" ->
         (CASE v.p.t = "MatchCont" -> {v.p.valid}
            [] v.p.t = "Lambda" -> FlagsInSeq(v.p.env, cells, fuel)
            [] OTHER -> {})
    [] v.k = "List" -> FlagsInSeq(v.es, cells, fuel)
    [] v.k = "DottedList" -> FlagsInSeq(v.es, cells, fuel) \cup FlagsIn(v.r, cells, fuel)
    [] v.k = "Span" -> FlagsIn(v.v, cells, fuel)
    [] v.k = "Ref" -> IF fuel = 0 THEN {} ELSE FlagsIn(cells[v.id], cells, fuel - 1)
    [] OTHER -> {}

\* the values a pattern stack frame and a control stack frame own
PatFrameVals(pf) == IF pf.pf = "List" THEN <<pf.u.v>> ELSE <<pf.e>>
RECURSIVE PatStackVals(_)
PatStackVals(ps) ==
  IF ps = <<>> THEN <<>> ELSE PatFrameVals(Head(ps)) \o PatStackVals(Tail(ps))
RECURSIVE UnconsVals(_)
UnconsVals(us) == IF us = <<>> THEN <<>> ELSE <<Head(us).v>> \o UnconsVals(Tail(us))

FrameVals(fr) ==
  CASE fr.f \in {"List", "DottedList", "DottedList2"} -> fr.vec
    [] fr.f = "App2" -> <<fr.fn>> \o fr.vec
    [] fr.f = "TestPattern" -> <<fr.e>> \o PatStackVals(fr.pstack) \o fr.vars
    [] fr.f = "Ret" -> fr.old
    [] fr.f = "MatchCont" -> <<fr.e>>
    [] fr.f = "MapProc" -> <<fr.fn>> \o UnconsVals(fr.us) \o fr.vec
    [] OTHER -> <<>>

RECURSIVE StackVals(_)
StackVals(stk) == IF stk = <<>> THEN <<>> ELSE FrameVals(Head(stk)) \o StackVals(Tail(stk))

BoundVals(lc) ==
  {lc[a][1].val : a \in {b \in DOMAIN lc : lc[b] # None}}

\* the flags some live MatchCont procedure value shares with its frame
LiveFlags(m, ret) ==
  LET fuel == Len(m.refs) IN
  FlagsInSeq(<<ret>> \o m.ctx \o StackVals(m.stack), m.refs, fuel)
    \cup UNION {FlagsIn(v, m.refs, fuel) : v \in BoundVals(m.lisp_ctx)}

\* Stack::Def(x) that makes a local definition under every enclosing frame
RetDef_anyframe(n, x, ret) ==
  LET r ==
    IF n.stack = <<>>
    THEN IF x # None
         THEN [n EXCEPT !.lisp_ctx[x[1][2]] =
                 Some([fsp |-> Some(fspan(n, x[1][1])), val |-> ret])]
         ELSE n
    ELSE [n EXCEPT !.stack = Push(Push(Pop(n.stack), FDrop), Top(n.stack)),
                   !.ctx = Append(n.ctx, ret)]
  IN [r EXCEPT !.active = SRet(UNDEF, FALSE)]

\* Stack::Def(x) that installs the global binding without its span
RetDef_nospan(n, x, ret) ==
  LET r ==
    IF n.stack = <<>>
    THEN IF x # None
         THEN [n EXCEPT !.lisp_ctx[x[1][2]] = Some([fsp |-> None, val |-> ret])]
         ELSE n
    ELSE IF supports_def(Top(n.stack))
         THEN [n EXCEPT !.stack = Push(Push(Pop(n.stack), FDrop), Top(n.stack)),
                        !.ctx = Append(n.ctx, ret)]
         ELSE n
  IN [r EXCEPT !.active = SRet(UNDEF, FALSE)]

\* Stack::Def(x) that pushes a local definition without its Drop_ frame
RetDef_nodrop(n, x, ret) ==
  LET r ==
    IF n.stack = <<>>
    THEN IF x # None
         THEN [n EXCEPT !.lisp_ctx[x[1][2]] =
                 Some([fsp |-> Some(fspan(n, x[1][1])), val |-> ret])]
         ELSE n
    ELSE IF supports_def(Top(n.stack))
         THEN [n EXCEPT !.ctx = Append(n.ctx, ret)]
         ELSE n
  IN [r EXCEPT !.active = SRet(UNDEF, FALSE)]

\* Stack::Def(x) popped by State::Ret(ret)
RetDef(n, x, ret) ==
  LET r ==
    IF n.stack = <<>>
    THEN IF x # None
         THEN [n EXCEPT !.lisp_ctx[x[1][2]] =
                 Some([fsp |-> Some(fspan(n, x[1][1])), val |-> ret])]
         ELSE n
    ELSE IF supports_def(Top(n.stack))
         THEN [n EXCEPT !.stack = Push(Push(Pop(n.stack), FDrop), Top(n.stack)),
                        !.ctx = Append(n.ctx, ret)]
         ELSE n
  IN [r EXCEPT !.active = SRet(UNDEF, FALSE)]

\* Stack::DottedList2(vec) popped by State::Ret(ret), vec not empty
RetDottedList2(vec, ret, uniq) ==
  CASE uniq /\ ret.k = "List" -> List(vec \o ret.es)
    [] uniq /\ ret.k = "DottedList" -> DottedList(vec \o ret.es, ret.r)
    [] OTHER -> DottedList(vec, ret)

\* Stack::MatchCont popped without a store to its flag
RetMatchCont_keep(n, fr, ret, uniq) == [n EXCEPT !.active = SRet(ret, uniq)]

\* Stack::MatchCont popped by State::Ret(ret): the flag is cleared when the
\* Arc has another owner
RetMatchCont(n, fr, ret, uniq) ==
  [n EXCEPT !.flags[fr.valid] =
              IF fr.valid \in LiveFlags(n, ret) THEN FALSE ELSE @,
            !.active = SRet(ret, uniq)]

\* State::Ret(ret)
RunRet(m, ret, uniq) ==
  IF m.stack = <<>> THEN [m EXCEPT !.active = SDone(ret)]
  ELSE
    LET fr == Top(m.stack) IN
    LET n == [m EXCEPT !.stack = Pop(m.stack)] IN
    CASE fr.f = "List" -> [n EXCEPT !.active = SList(fr.sp, Append(fr.vec, ret), fr.it)]
      [] fr.f = "DottedList" ->
           [n EXCEPT !.active = SDottedList(Append(fr.vec, ret), fr.it, fr.e)]
      [] fr.f = "DottedList2" ->
           IF fr.vec = <<>> THEN [n EXCEPT !.active = SRet(ret, uniq)]
           ELSE [n EXCEPT !.active = SRet(RetDottedList2(fr.vec, ret, uniq), TRUE)]
      [] fr.f = "App" -> [n EXCEPT !.active = SApp(fr.sp1, fr.sp2, ret, <<>>, fr.es)]
      [] fr.f = "App2" ->
           [n EXCEPT !.active = SApp(fr.sp1, fr.sp2, fr.fn, Append(fr.vec, ret), fr.it)]
      [] fr.f = "If" ->
           [n EXCEPT !.active = SEval(IF truthy(unwrap(ret)) THEN fr.e1 ELSE fr.e2)]
      [] fr.f = "Def" -> RetDef(n, fr.x, ret)
      [] fr.f = "Eval" ->
           IF fr.it = <<>> THEN [n EXCEPT !.active = SRet(ret, uniq)]
           ELSE PushFrame(n, FEval(Tail(fr.it)), SEval(Head(fr.it)))
      [] fr.f = "Match" -> [n EXCEPT !.active = SMatch(fr.sp, ret, fr.it)]
      [] fr.f = "TestPattern" ->
           [n EXCEPT !.active = SPattern(fr.sp, fr.e, fr.it, fr.br, fr.pstack, fr.vars,
                                         PsRet(truthy(unwrap(ret))))]
      [] fr.f = "Drop_" ->
           [n EXCEPT !.ctx = IF n.ctx = <<>> THEN <<>> ELSE Pop(n.ctx),
                     !.active = SRet(ret, uniq)]
      [] fr.f = "Ret" ->
           [n EXCEPT !.file = fr.fsp.file, !.ctx = fr.old, !.active = SRet(ret, uniq)]
      [] fr.f = "MatchCont" -> RetMatchCont(n, fr, ret, uniq)
      [] fr.f = "MapProc" ->
           [n EXCEPT !.active = SMapProc(fr.sp1, fr.sp2, fr.fn, fr.us, Append(fr.vec, ret))]

\* State::List(sp, vec, it)
RunList(m, sp, vec, it) ==
  IF it = <<>> THEN [m EXCEPT !.active = SRet(SpanV(fspan(m, sp), List(vec)), TRUE)]
  ELSE PushFrame(m, FList(sp, vec, Tail(it)), SEval(Head(it)))

\* State::DottedList(vec, it, r)
RunDottedList(m, vec, it, r) ==
  IF it = <<>> THEN PushFrame(m, FDottedList2(vec), SEval(r))
  ELSE PushFrame(m, FDottedList(vec, Tail(it), r), SEval(Head(it)))

(***************************************************************************)
(* Built-in procedures: Evaluator::evaluate_builtin.                       *)
(***************************************************************************)
\* BuiltinProc::spec, for the primitives of the model
BuiltinSpec(f) ==
  CASE f \in {"hd", "tl", "ref!", "get!"} -> Exact(1)
    [] f = "set!" -> Exact(2)
    [] f = "apply" -> AtLeast(2)
    [] f \in {"-", "=", "<", "map"} -> AtLeast(1)
    [] OTHER -> AtLeast(0)

\* Proc::spec and ProcSpec::valid
ProcSpecOf(p) ==
  CASE p.t = "Builtin" -> BuiltinSpec(p.f)
    [] p.t = "Lambda" -> p.spec
    [] p.t = "MatchCont" -> AtLeast(0)
SpecValid(spec, n) == IF spec.t = "Exact" THEN n = spec.n ELSE n >= spec.n

\* LispKind::fspan
RECURSIVE fspan_of(_)
fspan_of(v) ==
  CASE v.k = "Ref" -> fspan_of(refs[v.id])
    [] v.k = "Span" -> Some(v.fsp)
    [] v.k = "Proc" /\ v.p.t = "Lambda" -> Some(v.p.pos.fsp)
    [] OTHER -> None
HeadSpan(proc, sp2) == IF fspan_of(proc) = None THEN sp2 ELSE fspan_of(proc)[1].span

as_int(e) ==
  IF unwrap(e).k = "Number" THEN Ok(unwrap(e).n) ELSE Err("expected a integer")

RECURSIVE as_ref(_)
as_ref(e) ==
  CASE e.k = "Ref" -> Ok(e.id)
    [] e.k = "Span" -> as_ref(e.v)
    [] OTHER -> Err("not a ref-cell")

\* for e in args { n Op= try1!(self.as_int(&e)) }, from args[i] on
RECURSIVE FoldInt(_, _, _, _)
FoldInt(op, args, i, n) ==
  IF i > Len(args) THEN Ok(n)
  ELSE IF as_int(args[i])[1] = "Err" THEN as_int(args[i])
       ELSE FoldInt(op, args, i + 1,
                    IF op = "+" THEN n + as_int(args[i])[2] ELSE n - as_int(args[i])[2])

\* BuiltinProc::Add
BuiltinAdd(args) == FoldInt("+", args, 1, 0)

\* BuiltinProc::Sub, both arms
BuiltinSub(args) ==
  IF Len(args) = 1
  THEN IF as_int(args[1])[1] = "Err" THEN as_int(args[1]) ELSE Ok(0 - as_int(args[1])[2])
  ELSE IF as_int(Top(args))[1] = "Err" THEN as_int(Top(args))
       ELSE FoldInt("-", Pop(args), 1, as_int(Top(args))[2])

\* int_bool_binop: the chained comparison of args[i..] after `last`
RECURSIVE IntBoolChain(_, _, _, _)
IntBoolChain(op, args, i, last) ==
  IF i > Len(args) THEN Ok(TRUE)
  ELSE IF as_int(args[i])[1] = "Err" THEN as_int(args[i])
       ELSE LET new == as_int(args[i])[2] IN
            IF ~(IF op = "=" THEN last = new ELSE last < new) THEN Ok(FALSE)
            ELSE IntBoolChain(op, args, i + 1, new)
int_bool_binop(op, args) ==
  IF as_int(args[1])[1] = "Err" THEN as_int(args[1])
  ELSE IntBoolChain(op, args, 2, as_int(args[1])[2])

AnyTruthy(args) == \E i \in DOMAIN args: truthy(args[i])
AllTruthy(args) == \A i \in DOMAIN args: truthy(args[i])

\* BuiltinProc::Cons
BuiltinCons(args) ==
  CASE Len(args) = 0 -> NIL
    [] Len(args) = 1 -> args[1]
    [] OTHER -> DottedList(Pop(args), Top(args))

\* the loop of BuiltinProc::Apply over the last argument: the arguments of
\* the call, or <<>> inside Err when the tail does not end in a List
RECURSIVE ApplyArgs(_, _)
ApplyArgs(args, tl) ==
  CASE tl.k = "List" -> Ok(args \o tl.es)
    [] tl.k = "DottedList" -> ApplyArgs(args \o tl.es, tl.r)
    [] OTHER -> Err("apply: last argument is not a list")

\* BuiltinProc::Map
MapUncons(args) == [i \in DOMAIN args |-> Uncons_from(args[i])]
BuiltinMap(m, sp1, sp2, args) ==
  LET proc == args[1] IN
  LET sp == HeadSpan(proc, sp2) IN
  IF Len(args) = 1 THEN [m EXCEPT !.active = SApp(sp1, sp, proc, <<>>, <<>>)]
  ELSE [m EXCEPT !.active = SMapProc(sp1, sp, proc, MapUncons(args), <<>>)]

\* try1!: the value of an Ok, the error of an Err
Try1(m, sp1, r, uniq) ==
  IF r[1] = "Ok" THEN [m EXCEPT !.active = SRet(r[2], uniq)]
  ELSE [m EXCEPT !.active = err(m, sp1, r[2])]
MapOk(r, K(_)) == IF r[1] = "Ok" THEN Ok(K(r[2])) ELSE r

evaluate_builtin(m, sp1, sp2, f, args) ==
  CASE f = "begin" ->
         [m EXCEPT !.active = SRet(IF args = <<>> THEN UNDEF ELSE Top(args), FALSE)]
    [] f = "apply" ->
         LET proc == Head(args) IN
         LET r == ApplyArgs(Pop(Tail(args)), Top(args)) IN
         IF r[1] = "Ok"
         THEN [m EXCEPT !.active = SApp(sp1, HeadSpan(proc, sp2), proc, r[2], <<>>)]
         ELSE [m EXCEPT !.active = err(m, sp1, r[2])]
    [] f = "+" -> Try1(m, sp1, MapOk(BuiltinAdd(args), Number), TRUE)
    [] f = "-" -> Try1(m, sp1, MapOk(BuiltinSub(args), Number), TRUE)
    [] f = "=" -> Try1(m, sp1, MapOk(int_bool_binop("=", args), Bool), TRUE)
    [] f = "<" -> Try1(m, sp1, MapOk(int_bool_binop("<", args), Bool), TRUE)
    [] f = "not" -> [m EXCEPT !.active = SRet(Bool(~AnyTruthy(args)), TRUE)]
    [] f = "and" -> [m EXCEPT !.active = SRet(Bool(AllTruthy(args)), TRUE)]
    [] f = "or" -> [m EXCEPT !.active = SRet(Bool(AnyTruthy(args)), TRUE)]
    [] f = "list" -> [m EXCEPT !.active = SRet(List(args), TRUE)]
    [] f = "cons" -> [m EXCEPT !.active = SRet(BuiltinCons(args), Len(args) >= 2)]
    [] f = "hd" -> Try1(m, sp1, head(args[1]), FALSE)
    [] f = "tl" -> Try1(m, sp1, tail(args[1]), TRUE)
    [] f = "map" -> BuiltinMap(m, sp1, sp2, args)
    [] f = "ref!" ->
         [m EXCEPT !.refs = Append(m.refs, args[1]),
                   !.active = SRet(Ref(Len(m.refs) + 1), TRUE)]
    [] f = "get!" ->
         IF as_ref(args[1])[1] = "Ok"
         THEN [m EXCEPT !.active = SRet(m.refs[as_ref(args[1])[2]], FALSE)]
         ELSE [m EXCEPT !.active = err(m, sp1, as_ref(args[1])[2])]
    [] f = "set!" ->
         IF as_ref(args[1])[1] = "Ok"
         THEN [m EXCEPT !.refs[as_ref(args[1])[2]] = args[2],
                        !.active = SRet(UNDEF, FALSE)]
         ELSE [m EXCEPT !.active = err(m, sp1, as_ref(args[1])[2])]

(***************************************************************************)
(* Application: State::App, State::Match, State::Pattern, State::MapProc.  *)
(***************************************************************************)
\* `if let Some(Stack::Ret(..)) = self.stack.last()`: the call is a tail call
\* an evaluator that always pushes a new Ret frame
IsTailCall_never(stk) == FALSE

IsTailCall(stk) == stk # <<>> /\ Top(stk).f = "Ret"

\* the arguments as locals, without the rest list when there is no rest
BindArgs_norest(spec, args) ==
  IF spec.t = "Exact" \/ Len(args) = spec.n THEN args
  ELSE SubSeq(args, 1, spec.n) \o <<List(SliceFrom(args, spec.n))>>

\* the arguments as the callee's new locals
BindArgs(spec, args) ==
  IF spec.t = "Exact" THEN args
  ELSE SubSeq(args, 1, spec.n) \o <<List(SliceFrom(args, spec.n))>>

\* Proc::Lambda {pos, env, code, ..} applied to args
ApplyLambda(m, sp1, p, args) ==
  LET stk ==
    IF IsTailCall(m.stack)
    THEN Push(Pop(m.stack), FRet(Top(m.stack).fsp, p.pos, Top(m.stack).old, p.code))
    ELSE Push(m.stack, FRet(fspan(m, sp1), p.pos, m.ctx, p.code))
  IN [m EXCEPT !.stack = stk,
               !.ctx = p.env \o BindArgs(p.spec, args),
               !.file = p.pos.fsp.file,
               !.active = SEval(p.code)]

\* the loop without the restoring of ctx and file at a Ret frame
RECURSIVE Unwind_keep(_, _, _)
Unwind_keep(m, sp2, valid) ==
  IF m.stack = <<>> THEN Throw(m, sp2, "continuation has expired")
  ELSE
    LET fr == Top(m.stack) IN
    LET n == [m EXCEPT !.stack = Pop(m.stack)] IN
    CASE fr.f = "MatchCont" ->
           LET c == [n EXCEPT !.flags[fr.valid] = FALSE] IN
           IF fr.valid = valid THEN [c EXCEPT !.active = SMatch(fr.sp, fr.e, fr.it)]
           ELSE Unwind_keep(c, sp2, valid)
      [] fr.f = "Drop_" ->
           Unwind_keep([n EXCEPT !.ctx = IF n.ctx = <<>> THEN <<>> ELSE Pop(n.ctx)], sp2, valid)
      [] OTHER -> Unwind_keep(n, sp2, valid)

\* the loop stopping at the first MatchCont frame, whatever flag it holds
RECURSIVE Unwind_any(_, _, _)
Unwind_any(m, sp2, valid) ==
  IF m.stack = <<>> THEN Throw(m, sp2, "continuation has expired")
  ELSE
    LET fr == Top(m.stack) IN
    LET n == [m EXCEPT !.stack = Pop(m.stack)] IN
    CASE fr.f = "MatchCont" -> [n EXCEPT !.active = SMatch(fr.sp, fr.e, fr.it)]
      [] fr.f = "Drop_" ->
           Unwind_any([n EXCEPT !.ctx = IF n.ctx = <<>> THEN <<>> ELSE Pop(n.ctx)], sp2, valid)
      [] fr.f = "Ret" -> Unwind_any([n EXCEPT !.file = fr.fsp.file, !.ctx = fr.old], sp2, valid)
      [] OTHER -> Unwind_any(n, sp2, valid)

\* the loop popping Drop_ frames without popping ctx
RECURSIVE Unwind_nopop(_, _, _)
Unwind_nopop(m, sp2, valid) ==
  IF m.stack = <<>> THEN Throw(m, sp2, "continuation has expired")
  ELSE
    LET fr == Top(m.stack) IN
    LET n == [m EXCEPT !.stack = Pop(m.stack)] IN
    CASE fr.f = "MatchCont" ->
           LET c == [n EXCEPT !.flags[fr.valid] = FALSE] IN
           IF fr.valid = valid THEN [c EXCEPT !.active = SMatch(fr.sp, fr.e, fr.it)]
           ELSE Unwind_nopop(c, sp2, valid)
      [] fr.f = "Ret" ->
           Unwind_nopop([n EXCEPT !.file = fr.fsp.file, !.ctx = fr.old], sp2, valid)
      [] OTHER -> Unwind_nopop(n, sp2, valid)

\* the loop of Proc::MatchCont(valid): pop frames down to the MatchCont frame
\* holding the same flag
RECURSIVE Unwind(_, _, _)
Unwind(m, sp2, valid) ==
  IF m.stack = <<>> THEN Throw(m, sp2, "continuation has expired")
  ELSE
    LET fr == Top(m.stack) IN
    LET n == [m EXCEPT !.stack = Pop(m.stack)] IN
    CASE fr.f = "MatchCont" ->
           LET c == [n EXCEPT !.flags[fr.valid] = FALSE] IN
           IF fr.valid = valid THEN [c EXCEPT !.active = SMatch(fr.sp, fr.e, fr.it)]
           ELSE Unwind(c, sp2, valid)
      [] fr.f = "Drop_" ->
           Unwind([n EXCEPT !.ctx = IF n.ctx = <<>> THEN <<>> ELSE Pop(n.ctx)], sp2, valid)
      [] fr.f = "Ret" -> Unwind([n EXCEPT !.file = fr.fsp.file, !.ctx = fr.old], sp2, valid)
      [] OTHER -> Unwind(n, sp2, valid)

\* Proc::MatchCont(valid) applied
ApplyCont(m, sp2, valid) ==
  IF ~m.flags[valid] THEN Throw(m, sp2, "continuation has expired")
  ELSE Unwind(m, sp2, valid)

ArityError(spec) ==
  IF spec.t = "Exact" THEN "expected n argument(s)" ELSE "expected at least n argument(s)"

\* State::App that reduces the remaining arguments from the right
RunApp_right(m, a) ==
  IF a.it # <<>>
  THEN PushFrame(m, FApp2(a.sp1, a.sp2, a.f, a.args, Pop(a.it)), SEval(Top(a.it)))
  ELSE
    LET f == unwrap(a.f) IN
    IF f.k # "Proc" THEN Throw(m, a.sp1, "not a function, cannot apply")
    ELSE IF ~SpecValid(ProcSpecOf(f.p), Len(a.args))
    THEN Throw(m, a.sp1, ArityError(ProcSpecOf(f.p)))
    ELSE CASE f.p.t = "Builtin" -> evaluate_builtin(m, a.sp1, a.sp2, f.p.f, a.args)
           [] f.p.t = "Lambda" -> ApplyLambda(m, a.sp1, f.p, a.args)
           [] f.p.t = "MatchCont" -> ApplyCont(m, a.sp2, f.p.valid)

\* State::App(sp1, sp2, f, args, it)
RunApp(m, a) ==
  IF a.it # <<>>
  THEN PushFrame(m, FApp2(a.sp1, a.sp2, a.f, a.args, Tail(a.it)), SEval(Head(a.it)))
  ELSE
    LET f == unwrap(a.f) IN
    IF f.k # "Proc" THEN Throw(m, a.sp1, "not a function, cannot apply")
    ELSE IF ~SpecValid(ProcSpecOf(f.p), Len(a.args))
    THEN Throw(m, a.sp1, ArityError(ProcSpecOf(f.p)))
    ELSE CASE f.p.t = "Builtin" -> evaluate_builtin(m, a.sp1, a.sp2, f.p.f, a.args)
           [] f.p.t = "Lambda" -> ApplyLambda(m, a.sp1, f.p, a.args)
           [] f.p.t = "MatchCont" -> ApplyCont(m, a.sp2, f.p.valid)

\* State::Match(sp, e, it)
RunMatch(m, a) ==
  IF a.it = <<>> THEN Throw(m, a.sp, "match failed")
  ELSE LET br == Head(a.it) IN
       [m EXCEPT !.active =
          SPattern(a.sp, a.e, Tail(a.it), br, <<>>, [i \in 1..br.vars |-> UNDEF],
                   PsEval(br.pat, a.e))]

\* the frames of a branch without the Drop_ of the continuation's binding
BranchFrames_nodrop(a, br, valid) ==
  (IF br.cont THEN <<FMatchCont(a.sp, a.e, a.it, valid)>> ELSE <<>>)
    \o [i \in 1..br.vars |-> FDrop]

\* the frames pushed for a branch that matched: the MatchCont frame and the
\* Drop_ of the continuation (cont branches), then one Drop_ per variable
BranchFrames(a, br, valid) ==
  (IF br.cont THEN <<FMatchCont(a.sp, a.e, a.it, valid), FDrop>> ELSE <<>>)
    \o [i \in 1..br.vars |-> FDrop]

\* State::Pattern, after pattern_match returned Ok(true)
EnterBranch(m, a, pvars) ==
  LET valid == Len(m.flags) + 1 IN
  [m EXCEPT !.ctx = m.ctx \o pvars
                      \o (IF a.br.cont THEN <<Proc(MatchCont(valid))>> ELSE <<>>),
            !.flags = IF a.br.cont THEN Append(m.flags, TRUE) ELSE m.flags,
            !.stack = m.stack \o BranchFrames(a, a.br, valid),
            !.active = SEval(a.br.eval)]

\* State::Pattern that leaves the bindings of a failed attempt in ctx
RunPattern_leak(m, a, build) ==
  LET r == pattern_match(PM(a.pstack, a.vars, a.st), build) IN
  CASE r.st.r.t = "TestPending" ->
         PushFrame(m, FTestPattern(r.st.r.sp, a.e, a.it, a.br, r.stack, r.vars),
                   SApp(r.st.r.sp, r.st.r.sp, m.ctx[r.st.r.i + 1], <<a.e>>, <<>>))
    [] r.st.r.t = "Panic" -> [m EXCEPT !.active = SPanic("attempt to subtract with overflow")]
    [] r.st.r.t = "Ok" /\ ~r.st.r.b ->
         [m EXCEPT !.ctx = m.ctx \o r.vars, !.active = SMatch(a.sp, a.e, a.it)]
    [] r.st.r.t = "Ok" /\ r.st.r.b -> EnterBranch(m, a, r.vars)

\* State::Pattern(sp, e, it, br, pstack, vars, st)
RunPattern(m, a, build) ==
  LET r == pattern_match(PM(a.pstack, a.vars, a.st), build) IN
  CASE r.st.r.t = "TestPending" ->
         PushFrame(m, FTestPattern(r.st.r.sp, a.e, a.it, a.br, r.stack, r.vars),
                   SApp(r.st.r.sp, r.st.r.sp, m.ctx[r.st.r.i + 1], <<a.e>>, <<>>))
    [] r.st.r.t = "Panic" -> [m EXCEPT !.active = SPanic("attempt to subtract with overflow")]
    [] r.st.r.t = "Ok" /\ ~r.st.r.b -> [m EXCEPT !.active = SMatch(a.sp, a.e, a.it)]
    [] r.st.r.t = "Ok" /\ r.st.r.b -> EnterBranch(m, a, r.vars)

\* State::MapProc: `for u in it`, the uncons of the other cursors
RECURSIVE MapUnconsRest(_, _)
MapUnconsRest(us, i) ==
  IF i > Len(us) THEN [ok |-> TRUE, args |-> <<>>, us |-> us]
  ELSE IF uncons(us[i]) = <<>> THEN [ok |-> FALSE, args |-> <<>>, us |-> us]
       ELSE LET r == MapUnconsRest([us EXCEPT ![i] = uncons(us[i])[2]], i + 1) IN
            [r EXCEPT !.args = <<uncons(us[i])[1]>> \o r.args]

\* State::MapProc(sp1, sp2, f, us, vec)
RunMapProc(m, a) ==
  LET u0 == a.us[1] IN
  IF uncons(u0) = <<>>
  THEN IF ~(/\ exactly(uncons_cursor(u0), 0)
            /\ \A i \in 2..Len(a.us): exactly(a.us[i], 0))
       THEN Throw(m, a.sp1, "mismatched input length")
       ELSE [m EXCEPT !.active = SRet(List(a.vec), TRUE)]
  ELSE
    LET r == MapUnconsRest([a.us EXCEPT ![1] = uncons(u0)[2]], 2) IN
    IF ~r.ok THEN Throw(m, a.sp1, "mismatched input length")
    ELSE PushFrame(m, FMapProc(a.sp1, a.sp2, a.f, r.us, a.vec),
                   SApp(a.sp1, a.sp2, a.f, <<uncons(u0)[1]>> \o r.args, <<>>))

\* the list elements 0..n-1
RECURSIVE Iota(_)
Iota(n) == IF n = 0 THEN <<>> ELSE Append(Iota(n - 1), Number(n - 1))

\* the states of the variables of a part of the model that is not running
EvalIdle ==
  /\ script = 0 /\ todo = <<>> /\ active = [s |-> "Idle"]
  /\ stack = <<>> /\ ctx = <<>> /\ file = "main"
  /\ lisp_ctx = <<>> /\ flags = <<>> /\ refs = <<>> /\ hist = <<>> /\ blocks = <<>>
  /\ flags0 = 0
TailIdle == tl_in = NIL /\ tl_cur = NIL /\ tl_k = 0
ConsIdle == uc_d = Uncons(NIL, 0) /\ uc_f = Uncons(NIL, 0) /\ uc_k = 0
PatIdle ==
  /\ pm_p = PSkip /\ pm_m = PM(<<>>, <<>>, PsReturn([t |-> "Ok", b |-> TRUE]))
  /\ pm_n = 0 /\ pm_b = "release"

\* the elements numbered from..from+n-1
RECURSIVE Elems(_, _)
Elems(from, n) == IF n = 0 THEN <<>> ELSE <<Number(from)>> \o Elems(from + 1, n - 1)

(***************************************************************************)
(* History.  hist records, oldest first, what the properties below compare *)
(* the evaluator's state with: for every Match in progress the stack depth,*)
(* ctx and file at the moment IR::Match was reached (and again when its    *)
(* first branch was tried), and for every lambda activation those of the   *)
(* non-tail call that pushed its Ret frame.  The engine never reads hist.  *)
(***************************************************************************)
MaxTails == 3  \* the count of tail calls of an activation saturates here

HEntry(kind, m, brs) ==
  [kind |-> kind, depth |-> Len(m.stack), ctx |-> m.ctx, file |-> m.file,
   mctx |-> m.ctx, mfile |-> m.file, brs |-> brs, tried |-> 0, bound |-> 0,
   resumed |-> FALSE, tails |-> 0, tstack |-> m.stack, tctx |-> m.ctx, base |-> 0]
\* a Match reached with the evaluator as in m, and its branches
HMatch(m, brs) == HEntry("match", m, brs)
\* a non-tail application of a lambda with the evaluator as in m
HCall(m) == HEntry("call", m, <<>>)

\* State::Eval: a Match begins
HistEval(h, m) ==
  IF m.active.ir.ir = "Match" THEN Append(h, HMatch(m, m.active.ir.brs)) ELSE h

\* drop the newest entries that are matches begun at stack depth d
RECURSIVE DropMatches(_, _)
DropMatches(h, d) ==
  IF h # <<>> /\ Top(h).kind = "match" /\ Top(h).depth = d
  THEN DropMatches(Pop(h), d) ELSE h

\* State::Ret: the matches begun at this depth deliver their value; a popped
\* Ret frame ends its activation; a popped Match frame starts trying branches
HistRet(h, m) ==
  LET h1 == DropMatches(h, Len(m.stack)) IN
  IF m.stack = <<>> THEN h1
  ELSE CASE Top(m.stack).f = "Ret" -> Pop(h1)
         [] Top(m.stack).f = "Match" ->
              [h1 EXCEPT ![Len(h1)].mctx = m.ctx, ![Len(h1)].mfile = m.file]
         [] OTHER -> h1

\* State::Match: the newest match tries its next branch, with the control
\* stack and ctx as they are now
HistMatch(h, m) ==
  IF m.active.it = <<>> THEN h
  ELSE [h EXCEPT ![Len(h)].tried = @ + 1,
                 ![Len(h)].tstack = m.stack, ![Len(h)].tctx = m.ctx]

\* State::Pattern: n is the evaluator after the step; when the branch is
\* entered, the number of bindings pushed for it
HistPattern(h, m, n) ==
  IF n.active.s = "Eval" THEN [h EXCEPT ![Len(h)].bound = Len(n.ctx) - Len(m.ctx)]
  ELSE h

\* the entries whose frame or match survives a stack cut down to depth d
RECURSIVE CutHist(_, _)
CutHist(h, d) ==
  IF h = <<>> THEN h
  ELSE IF (Top(h).kind = "match" /\ Top(h).depth <= d)
            \/ (Top(h).kind = "call" /\ Top(h).depth < d)
       THEN h ELSE CutHist(Pop(h), d)

\* a tail call: the enclosing activation (the newest call entry) counts it,
\* and so do the matches begun directly above the replaced frame, whose
\* value the callee now produces
RECURSIVE MarkTail(_, _)
MarkTail(h, d) ==
  IF h = <<>> THEN h
  ELSE IF Top(h).kind = "match" /\ Top(h).depth = d
       THEN Append(MarkTail(Pop(h), d), [Top(h) EXCEPT !.tails = 1])
       ELSE IF Top(h).kind = "call"
            THEN Append(Pop(h), [Top(h) EXCEPT !.tails =
                                   IF @ < MaxTails THEN @ + 1 ELSE @])
            ELSE h

\* the newest activation begins the body of a lambda with |ctx| = b
RECURSIVE SetBase(_, _)
SetBase(h, b) ==
  IF h = <<>> THEN h
  ELSE IF Top(h).kind = "call" THEN Append(Pop(h), [Top(h) EXCEPT !.base = b])
       ELSE Append(SetBase(Pop(h), b), Top(h))

\* State::App applying a procedure: m before the step, n after it
HistApp(h, m, n) ==
  LET f == unwrap(m.active.f) IN
  IF m.active.it # <<>> \/ n.active.s \in {"Error", "Panic"} \/ f.k # "Proc" THEN h
  ELSE CASE f.p.t = "Lambda" ->
              IF Len(n.stack) = Len(m.stack)
              THEN SetBase(MarkTail(h, Len(m.stack)), Len(n.ctx))
              ELSE Append(h, [HCall(m) EXCEPT !.base = Len(n.ctx)])
         [] f.p.t = "MatchCont" ->
              LET c == CutHist(h, Len(n.stack)) IN
              IF c = <<>> THEN c ELSE [c EXCEPT ![Len(c)].resumed = TRUE]
         [] OTHER -> h

(***************************************************************************)
(* Blocks.  blocks records, oldest first, the applications (IR::App) and   *)
(* blocks (IR::Eval) in progress: the stack depth and |ctx| at which each  *)
(* began and the number of local definitions made directly in it so far.   *)
(* The engine never reads blocks.                                          *)
(***************************************************************************)
HBlock(m) == [depth |-> Len(m.stack), n |-> Len(m.ctx), defs |-> 0]

\* the entries of the blocks begun beneath stack depth d
Prune(b, d) == SelectSeq(b, LAMBDA e: e.depth < d)

\* State::Eval: an application or a non-empty block begins
BlocksEval(b, m) ==
  LET ir == m.active.ir IN
  IF ir.ir = "App" \/ (ir.ir = "Eval" /\ ir.es # <<>>) THEN Append(b, HBlock(m)) ELSE b

\* State::Ret: the blocks begun at this depth or above have delivered; a Def
\* frame directly under an App2 or Eval frame adds a local to its block
BlocksRet(b, m) ==
  LET p == Prune(b, Len(m.stack)) IN
  IF /\ Len(m.stack) >= 2 /\ Top(m.stack).f = "Def"
     /\ supports_def(Top(Pop(m.stack))) /\ p # <<>>
  THEN [p EXCEPT ![Len(p)].defs = @ + 1] ELSE p

\* State::App, m before the step and n after it: a continuation that cuts
\* the stack abandons the blocks above the cut, and a tail call replaces the
\* application that made it, whose value the callee now produces
BlocksApp(b, m, n) ==
  IF \/ n.active.s = "Match"
     \/ n.active.s = "Eval" /\ Len(n.stack) = Len(m.stack)
  THEN Prune(b, Len(n.stack)) ELSE b

(***************************************************************************)
(* Scripts: the top-level items handed to Elaborator::evaluate, in order.  *)
(***************************************************************************)
Item(path, ir) == [path |-> path, ir |-> ir]
G(a) == Global(0, a)
Call(sp, f, es) == AppIR(sp, sp + 1, f, es)
Q(a) == Const(Atom(a))
N(n) == Const(Number(n))
Define(sp, a, val) == DefIR(Some(<<sp, a>>), val)
Fn(sp, n, code) == LambdaIR(sp, Exact(n), code)
QList(ns) == Const(List([i \in DOMAIN ns |-> Number(ns[i])]))

\* (def (loop n) (if (= n 0) 'done (loop (- n 1))))
DefLoop ==
  Define(10, "loop", Fn(11, 1,
    IfIR(Call(12, G("="), <<Local(0), N(0)>>), Q("done"),
         Call(14, G("loop"), <<Call(16, G("-"), <<Local(0), N(1)>>)>>))))
\* (def (down n) (if (= n 0) 'done (down (+ n -1))))
DefDown ==
  Define(20, "down", Fn(21, 1,
    IfIR(Call(22, G("="), <<Local(0), N(0)>>), Q("done"),
         Call(24, G("down"), <<Call(26, G("+"), <<Local(0), N(-1)>>)>>))))
\* (def (spin) (spin))
DefSpin == Define(30, "spin", Fn(31, 0, Call(32, G("spin"), <<>>)))

\* (loop n)
ScriptLoop(n) == <<Item("lib", DefLoop), Item("main", Call(40, G("loop"), <<N(n)>>))>>
\* ((fn (x) (list (down n) x)) 7)
ScriptDown(n) ==
  <<Item("lib", DefDown),
    Item("main", Call(42, Fn(44, 1, ListIR(45, <<Call(46, G("down"), <<N(n)>>), Local(0)>>)),
                      <<N(7)>>))>>
\* (spin)
ScriptSpin == <<Item("lib", DefSpin), Item("main", Call(48, G("spin"), <<>>))>>

\* (- a ...)
IntArgs == {0, 1, 3}
SubArgs == UNION {[1..n -> IntArgs] : n \in 1..3}
ScriptSub(as) ==
  <<Item("main", Call(50, G("-"), [i \in DOMAIN as |-> N(as[i])]))>>

\* (map (fn (x) (+ x 10)) xs), (map + xs ys), (map (fn () 'done))
MapLists == {<<>>, <<1>>, <<1, 2>>}
ScriptMap1(xs) ==
  <<Item("main", Call(52, G("map"),
      <<Fn(54, 1, Call(55, G("+"), <<Local(0), N(10)>>)), QList(xs)>>))>>
ScriptMap2(xs, ys) ==
  <<Item("main", Call(56, G("map"), <<G("+"), QList(xs), QList(ys)>>))>>
ScriptMap0 == <<Item("main", Call(58, G("map"), <<Fn(59, 0, Q("done"))>>))>>

\* (match 1 ((=> k) (k)) (_ 'second))
ScriptCont ==
  <<Item("main", MatchIR(60, N(1),
      <<Branch(PSkip, 0, TRUE, Call(61, Local(0), <<>>)),
        Branch(PSkip, 0, FALSE, Q("second"))>>))>>

\* (def (f x) (match x (((a b) => k) (def y 5) ((fn () (k))))
\*                     ((a . _) (list 'second a x))
\*                     (_ 'third)))
DefF ==
  Define(62, "f", Fn(63, 1, MatchIR(64, Local(0),
    <<Branch(PList(<<PAtom(0), PAtom(1)>>, None), 2, TRUE,
        EvalIR(<<Define(65, "y", N(5)),
                 Call(66, Fn(68, 0, Call(69, Local(3), <<>>)), <<>>)>>)),
      Branch(PDottedList(<<PAtom(0)>>, PSkip), 1, FALSE,
        ListIR(71, <<Q("second"), Local(1), Local(0)>>)),
      Branch(PSkip, 0, FALSE, Q("third"))>>)))
\* (list (f v) 8)
FArgs == {List(<<Number(1), Number(2)>>), List(<<Number(1)>>), Number(5)}
ScriptF(v) ==
  <<Item("lib", DefF),
    Item("main", ListIR(72, <<Call(73, G("f"), <<Const(v)>>), N(8)>>))>>

\* (def (g x h) (match x ((a => k) (h k)) (_ 'second)));  (g 1 (fn (k) (k)))
DefG ==
  Define(75, "g", Fn(76, 2, MatchIR(77, Local(0),
    <<Branch(PAtom(0), 1, TRUE, Call(78, Local(1), <<Local(3)>>)),
      Branch(PSkip, 0, FALSE, Q("second"))>>)))
ScriptG ==
  <<Item("lib", DefG),
    Item("main", Call(80, G("g"), <<N(1), Fn(82, 1, Call(83, Local(0), <<>>))>>))>>

\* (def r (ref! 0))
DefR == Define(85, "r", Call(86, G("ref!"), <<N(0)>>))
SetR(sp, e) == Call(sp, G("set!"), <<G("r"), e>>)
GetR(sp) == Call(sp, G("get!"), <<G("r")>>)

\* (match 1 ((=> k) (match 2 ((=> k2) (set! r k2) (k)) (_ 'inner2)))
\*          (_ ((get! r))))
ScriptOuter ==
  <<Item("main", DefR),
    Item("main", MatchIR(90, N(1),
      <<Branch(PSkip, 0, TRUE, MatchIR(91, N(2),
          <<Branch(PSkip, 0, TRUE,
              EvalIR(<<SetR(92, Local(1)), Call(94, Local(0), <<>>)>>)),
            Branch(PSkip, 0, FALSE, Q("inner2"))>>)),
        Branch(PSkip, 0, FALSE, Call(96, GetR(98), <<>>))>>))>>

\* (match 1 ((=> k) (match 2 ((=> k2) (set! r k2) (k2)) (_ ((get! r)))))
\*          (_ 'outer2))
ScriptTwice ==
  <<Item("main", DefR),
    Item("main", MatchIR(100, N(1),
      <<Branch(PSkip, 0, TRUE, MatchIR(101, N(2),
          <<Branch(PSkip, 0, TRUE,
              EvalIR(<<SetR(102, Local(1)), Call(104, Local(1), <<>>)>>)),
            Branch(PSkip, 0, FALSE, Call(106, GetR(108), <<>>))>>)),
        Branch(PSkip, 0, FALSE, Q("outer2"))>>))>>

\* (match 1 ((=> k) (set! r k)) (_ 'second));  ((get! r))
ScriptLate ==
  <<Item("main", DefR),
    Item("main", MatchIR(110, N(1),
      <<Branch(PSkip, 0, TRUE, SetR(111, Local(0))),
        Branch(PSkip, 0, FALSE, Q("second"))>>)),
    Item("main", Call(113, GetR(115), <<>>))>>

\* (def k0 (match 1 ((=> k) k) (_ 'second)));  (k0)
ScriptEscape ==
  <<Item("main", Define(117, "k0", MatchIR(118, N(1),
      <<Branch(PSkip, 0, TRUE, Local(0)),
        Branch(PSkip, 0, FALSE, Q("second"))>>))),
    Item("main", Call(119, G("k0"), <<>>))>>

\* (def (id2 a b) b);  (def (h x) (match x (_ (id2 x x))));  (list (h 1))
ScriptTailMatch ==
  <<Item("lib", Define(120, "id2", Fn(121, 2, Local(1)))),
    Item("lib", Define(122, "h", Fn(123, 1, MatchIR(124, Local(0),
      <<Branch(PSkip, 0, FALSE, Call(125, G("id2"), <<Local(0), Local(0)>>))>>)))),
    Item("main", ListIR(127, <<Call(128, G("h"), <<N(1)>>)>>))>>

\* ((fn (zero?) (match 5 ((? zero? _) 'z) (_ 'nz))) (fn (x) (= x 0)))
ScriptTest(n) ==
  <<Item("main", Call(130, Fn(132, 1, MatchIR(133, N(n),
      <<Branch(PTest(134, 0, <<PSkip>>), 0, FALSE, Q("z")),
        Branch(PSkip, 0, FALSE, Q("nz"))>>)),
      <<Fn(135, 1, Call(136, G("="), <<Local(0), N(0)>>))>>))>>

\* (begin (def x 3) (+ x 4));  (match '(1 2 3) ((a b c) (list c b a)))
ScriptBegin ==
  <<Item("main", Call(140, G("begin"),
      <<Define(142, "x", N(3)), Call(143, G("+"), <<Local(0), N(4)>>)>>))>>
ScriptReverse ==
  <<Item("main", MatchIR(145, QList(<<1, 2, 3>>),
      <<Branch(PList(<<PAtom(0), PAtom(1), PAtom(2)>>, None), 3, FALSE,
          ListIR(146, <<Local(2), Local(1), Local(0)>>))>>))>>

\* (match (cons 1 2 tl) ((a b) 'two) ((a b . _) 'more) (_ 'other))
ConsTails == {NIL, List(<<Number(3)>>), Number(4)}
ScriptCons(tl) ==
  <<Item("main", MatchIR(150, Call(151, G("cons"), <<N(1), N(2), Const(tl)>>),
      <<Branch(PList(<<PAtom(0), PAtom(1)>>, None), 2, FALSE, Q("two")),
        Branch(PList(<<PAtom(0), PAtom(1)>>, Some(0)), 2, FALSE, Q("more")),
        Branch(PSkip, 0, FALSE, Q("other"))>>))>>

\* (match v ((_ ... _ . rest-of-at-least-n) 'yes) (_ 'no)): m sub-patterns, Some(n)
AtLeastVals ==
  {List(Elems(0, l)) : l \in 0..MaxConsLen}
    \cup {DottedList(Elems(0, 2), List(Elems(2, l))) : l \in 0..2}
ScriptAtLeast(v, mm, n) ==
  <<Item("main", MatchIR(155, Const(v),
      <<Branch(PList([i \in 1..mm |-> PSkip], Some(n)), 0, FALSE, Q("yes")),
        Branch(PSkip, 0, FALSE, Q("no"))>>))>>

\* '(1 2 . tl), the tail a fresh list, a constant or a local
DottedTails == {Call(161, G("list"), <<N(3)>>), QList(<<3>>), N(3), Local(0)}
ScriptDotted(tl) ==
  <<Item("main", Call(162, Fn(164, 1, DottedListIR(<<N(1), N(2)>>, tl)),
                      <<Call(165, G("list"), <<N(9)>>)>>))>>

\* (match 'v (p a) (_ 'no)): the value bound to the variable of slot 0 by p
\* (Undef when p binds nothing), or 'no
PatVals == {Atom("x"), Atom("y")}
Leaves == {PSkip, PAtom(0), PQuoteAtom("x")}
LeafSeqs == UNION {[1..n -> Leaves] : n \in 0..2}
Inner == {PAnd(ps) : ps \in LeafSeqs} \cup {POr(ps) : ps \in LeafSeqs}
AndOrPats ==
  Inner \cup {PAnd(<<i, l>>) : i \in Inner, l \in Leaves}
        \cup {POr(<<i, l>>) : i \in Inner, l \in Leaves}
NotPats == {PNot(ps) : ps \in LeafSeqs}
ScriptPat(p, v) ==
  <<Item("main", MatchIR(170, Const(v),
      <<Branch(p, 1, FALSE, Local(0)),
        Branch(PSkip, 0, FALSE, Q("no"))>>))>>

\* (+ 1 2);  (def (+ a b) a);  (+ 1 2)
ScriptOverride ==
  <<Item("main", Call(172, G("+"), <<N(1), N(2)>>)),
    Item("lib", Define(174, "+", Fn(175, 2, Local(0)))),
    Item("main", Call(176, G("+"), <<N(1), N(2)>>))>>
\* (def _ 3);  zz;  (list list)
ScriptDefNone ==
  <<Item("main", DefIR(None, N(3))),
    Item("main", Global(178, "zz")),
    Item("main", ListIR(179, <<G("list"), G("list")>>))>>

\* (def (h a) (def x (+ a 1)) (def y (+ x 1)) (list a x y))
\* (list (h 1) (def x 7) x)
DefH ==
  Define(180, "h", Fn(181, 1, EvalIR(
    <<Define(182, "x", Call(183, G("+"), <<Local(0), N(1)>>)),
      Define(185, "y", Call(186, G("+"), <<Local(1), N(1)>>)),
      ListIR(188, <<Local(0), Local(1), Local(2)>>)>>)))
ScriptLocal ==
  <<Item("lib", DefH),
    Item("main", Call(190, G("list"),
      <<Call(192, G("h"), <<N(1)>>), Define(194, "x", N(7)), Local(0)>>))>>

\* (def v ((fn (e) (fn (a . rest) (list e a rest))) 5))
\* ((fn (z) (list (v args...) z)) 9)
DefV ==
  Define(200, "v", Call(201,
    Fn(203, 1, LambdaIR(204, AtLeast(1), ListIR(205, <<Local(0), Local(1), Local(2)>>))),
    <<N(5)>>))
VarArgs == {<<>>, <<N(1)>>, <<N(1), N(2)>>, <<N(1), N(2), N(3)>>}
ScriptVar(args) ==
  <<Item("lib", DefV),
    Item("main", Call(207,
      Fn(209, 1, ListIR(210, <<Call(211, G("v"), args), Local(0)>>)), <<N(9)>>))>>

\* (apply + 1 tl)
ApplyTails ==
  {QList(<<2, 3>>), Const(NIL),
   Const(DottedList(<<Number(2)>>, List(<<Number(3)>>))),
   Const(DottedList(<<Number(2)>>, Number(3))), N(4),
   ListIR(214, <<N(2), N(3)>>),
   Call(215, G("ref!"), <<QList(<<2, 3>>)>>)}
ScriptApply(tl) ==
  <<Item("main", Call(217, G("apply"), <<G("+"), N(1), tl>>))>>

\* (list (not x) (not (not x)) (and x) (or x) (if x 'then 'else))
Conds ==
  {Const(Bool(FALSE)), Const(Bool(TRUE)), N(0), Const(UNDEF),
   Const(SpanV(FileSpan("main", 220), Bool(FALSE))),
   Const(SpanV(FileSpan("main", 220), Bool(TRUE))),
   Call(221, G("ref!"), <<Const(Bool(FALSE))>>),
   Call(221, G("ref!"), <<N(1)>>)}
ScriptNot(x) ==
  <<Item("main", Call(223, G("list"),
      <<Call(225, G("not"), <<x>>),
        Call(227, G("not"), <<Call(229, G("not"), <<x>>)>>),
        Call(231, G("and"), <<x>>),
        Call(233, G("or"), <<x>>),
        IfIR(x, Q("then"), Q("else"))>>))>>

\* (def r (ref! '()))
\* ((mark 0 list) (mark 1 'a) (mark 2 'b));  [(mark 3 'c) (mark 4 'd)];  (get! r)
\* where (mark i e) is (begin (set! r (cons i (get! r))) e)
DefR0 == Define(240, "r", Call(241, G("ref!"), <<Const(NIL)>>))
Mark(sp, i, e) ==
  Call(sp, G("begin"),
    <<SetR(sp + 2, Call(sp + 4, G("cons"), <<N(i), GetR(sp + 6)>>)), e>>)
ScriptOrder ==
  <<Item("main", DefR0),
    Item("main", Call(250, Mark(260, 0, G("list")),
                      <<Mark(270, 1, Q("a")), Mark(280, 2, Q("b"))>>)),
    Item("main", ListIR(290, <<Mark(300, 3, Q("c")), Mark(310, 4, Q("d"))>>)),
    Item("main", GetR(320))>>

\* ((fn (p) (match v ((a (? p b) 'x) (list a b))
\*                     ((_ . d) (list c d))      ; c is a variable never bound
\*                     (_ 'other)))
\*  (fn (x) b))
TentVals ==
  {List(<<Number(1), Number(0), Atom("x")>>), List(<<Number(1), Number(0), Atom("y")>>),
   Number(3)}
ScriptTent(v, b) ==
  <<Item("main", Call(330, Fn(332, 1, MatchIR(333, Const(v),
      <<Branch(PList(<<PAtom(0), PTest(334, 0, <<PAtom(1)>>), PQuoteAtom("x")>>, None),
               2, FALSE, ListIR(335, <<Local(1), Local(2)>>)),
        Branch(PDottedList(<<PSkip>>, PAtom(1)), 2, FALSE,
               ListIR(336, <<Local(1), Local(2)>>)),
        Branch(PSkip, 0, FALSE, Q("other"))>>)),
      <<Fn(337, 1, Const(Bool(b)))>>))>>

\* lib:  (def (g x) [zz]);  (def (f x) [(g x)])
\* main: ((fn () [(f 1)]))          -- zz is unbound
ScriptErr ==
  <<Item("lib", Define(400, "g", Fn(401, 1, ListIR(402, <<Global(403, "zz")>>)))),
    Item("lib", Define(405, "f", Fn(406, 1,
      ListIR(407, <<Call(408, G("g"), <<Local(0)>>)>>)))),
    Item("main", Call(410, Fn(412, 0, ListIR(413, <<Call(414, G("f"), <<N(1)>>)>>)),
                      <<>>))>>

\* (def r (ref! 0));  (match 1 ((=> k) (set! r k) zz));  ((get! r))
\* the second run stores its continuation and ends with an error
ScriptAbort ==
  <<Item("main", DefR),
    Item("main", MatchIR(420, N(1),
      <<Branch(PSkip, 0, TRUE, EvalIR(<<SetR(421, Local(0)), Global(423, "zz")>>))>>)),
    Item("main", Call(425, GetR(427), <<>>))>>

\* (def (down n) 'x (if (= n 0) 'done (down (+ n -1)))): the body is a block
DefBlock ==
  Define(430, "down", Fn(431, 1, EvalIR(<<Q("x"),
    IfIR(Call(432, G("="), <<Local(0), N(0)>>), Q("done"),
         Call(434, G("down"), <<Call(436, G("+"), <<Local(0), N(-1)>>)>>))>>)))
\* (down n)
ScriptBlock(n) == <<Item("lib", DefBlock), Item("main", Call(438, G("down"), <<N(n)>>))>>

\* ((fn (a) body) 7) with a definition (def y ...) directly under a Ret, If,
\* List, Def, Drop_, Match or DottedList frame
DefY(val) == Define(442, "y", val)
DefBodies ==
  {DefY(Local(0)), DefIR(None, Local(0)),
   IfIR(DefY(Local(0)), Local(0), Q("x")),
   ListIR(443, <<DefY(N(3)), Local(0)>>),
   Define(444, "x", DefY(N(3))),
   MatchIR(445, N(1), <<Branch(PAtom(0), 1, FALSE, DefY(Local(1)))>>),
   MatchIR(446, DefY(N(3)), <<Branch(PSkip, 0, FALSE, Local(0))>>),
   MatchIR(447, N(1), <<Branch(PSkip, 0, TRUE, DefY(Local(0)))>>),
   DottedListIR(<<DefY(N(3))>>, Local(0))}
ScriptDefIn(body) == <<Item("main", Call(440, Fn(441, 1, body), <<N(7)>>))>>

ScriptSet ==
  {ScriptLoop(n) : n \in 0..MaxLoop} \cup {ScriptDown(n) : n \in 0..MaxLoop}
    \cup {ScriptSub(as) : as \in SubArgs}
    \cup {ScriptMap1(xs) : xs \in MapLists}
    \cup {ScriptMap2(xs, ys) : xs \in MapLists, ys \in MapLists}
    \cup {ScriptF(v) : v \in FArgs}
    \cup {ScriptTest(n) : n \in {0, 5}}
    \cup {ScriptCons(tl) : tl \in ConsTails}
    \cup {ScriptAtLeast(v, mm, n) : v \in AtLeastVals, mm \in 0..2, n \in 0..2}
    \cup {ScriptDotted(tl) : tl \in DottedTails}
    \cup {ScriptPat(p, v) : p \in AndOrPats \cup NotPats, v \in PatVals}
    \cup {ScriptOverride, ScriptDefNone, ScriptLocal}
    \cup {ScriptVar(args) : args \in VarArgs}
    \cup {ScriptApply(tl) : tl \in ApplyTails}
    \cup {ScriptNot(x) : x \in Conds} \cup {ScriptOrder}
    \cup {ScriptTent(v, b) : v \in TentVals, b \in BOOLEAN}
    \cup {ScriptErr, ScriptAbort}
    \cup {ScriptBlock(n) : n \in 0..MaxLoop}
    \cup {ScriptDefIn(body) : body \in DefBodies}
    \cup {ScriptSpin, ScriptMap0, ScriptCont, ScriptG, ScriptOuter, ScriptTwice,
          ScriptLate, ScriptEscape, ScriptTailMatch, ScriptBegin, ScriptReverse}

Atoms ==
  BuiltinNames \cup {"loop", "down", "spin", "f", "g", "r", "k0", "id2", "h", "x", "y", "zz", "v"}

Init ==
  /\ TailIdle /\ ConsIdle /\ PatIdle
  /\ script \in ScriptSet
  /\ todo = script
  /\ active = [s |-> "Idle"]
  /\ stack = <<>> /\ ctx = <<>> /\ file = "main"
  /\ lisp_ctx = [a \in Atoms |-> None]
  /\ flags = <<>> /\ refs = <<>> /\ hist = <<>> /\ blocks = <<>>
  /\ flags0 = 0

Idle == UNCHANGED <<tailVars, consVars, patVars>>

\* Elaborator::evaluate: Evaluator::new(self).run(State::Eval(ir)), for the
\* next top-level item, once the previous run has returned
Evaluate ==
  /\ active.s \in {"Idle", "Done", "Error"}
  /\ todo # <<>>
  /\ active' = SEval(Head(todo).ir)
  /\ stack' = <<>> /\ ctx' = <<>> /\ file' = Head(todo).path
  /\ todo' = Tail(todo)
  /\ hist' = <<>> /\ blocks' = <<>> /\ flags0' = Len(flags)
  /\ UNCHANGED <<script, lisp_ctx, flags, refs>> /\ Idle

StepEval ==
  /\ active.s = "Eval"
  /\ Becomes(RunEval(Cur, active.ir))
  /\ hist' = HistEval(hist, Cur) /\ blocks' = BlocksEval(blocks, Cur)
  /\ UNCHANGED <<script, todo, flags0>> /\ Idle

StepRet ==
  /\ active.s = "Ret"
  /\ Becomes(RunRet(Cur, active.v, active.uniq))
  /\ hist' = HistRet(hist, Cur) /\ blocks' = BlocksRet(blocks, Cur)
  /\ UNCHANGED <<script, todo, flags0>> /\ Idle

StepList ==
  /\ active.s = "List"
  /\ Becomes(RunList(Cur, active.sp, active.vec, active.it))
  /\ UNCHANGED <<script, todo, hist, blocks, flags0>> /\ Idle

StepDottedList ==
  /\ active.s = "DottedList"
  /\ Becomes(RunDottedList(Cur, active.vec, active.it, active.r))
  /\ UNCHANGED <<script, todo, hist, blocks, flags0>> /\ Idle

StepApp ==
  /\ active.s = "App"
  /\ Becomes(RunApp(Cur, active))
  /\ hist' = HistApp(hist, Cur, RunApp(Cur, active))
  /\ blocks' = BlocksApp(blocks, Cur, RunApp(Cur, active))
  /\ UNCHANGED <<script, todo, flags0>> /\ Idle

StepMatch ==
  /\ active.s = "Match"
  /\ Becomes(RunMatch(Cur, active))
  /\ hist' = HistMatch(hist, Cur)
  /\ UNCHANGED <<script, todo, blocks, flags0>> /\ Idle

\* the build decides what an overflowing usize subtraction does
Builds == {"debug", "release"}
StepPattern ==
  /\ active.s = "Pattern"
  /\ \E build \in Builds:
       /\ Becomes(RunPattern(Cur, active, build))
       /\ hist' = HistPattern(hist, Cur, RunPattern(Cur, active, build))
  /\ UNCHANGED <<script, todo, blocks, flags0>> /\ Idle

StepMapProc ==
  /\ active.s = "MapProc"
  /\ Becomes(RunMapProc(Cur, active))
  /\ UNCHANGED <<script, todo, hist, blocks, flags0>> /\ Idle

Next ==
  \/ Evaluate \/ StepEval \/ StepRet \/ StepList \/ StepDottedList
  \/ StepApp \/ StepMatch \/ StepPattern \/ StepMapProc

Spec == Init /\ [][Next]_vars

(***************************************************************************)
(* Harness for head/tail: repeated application of the Tail builtin's       *)
(* Elaborator::tail to a proper list, as (tl (tl ... v)) performs it.      *)
(***************************************************************************)
TailInit ==
  /\ EvalIdle /\ ConsIdle /\ PatIdle
  /\ \E n \in 0..MaxTailLen: tl_in = List(Iota(n))
  /\ tl_cur \in {tl_in, SpanV(FileSpan("main", 0), tl_in)}
  /\ tl_k = 0

\* (tl e): BuiltinProc::Tail => try1!(self.tail(&args[0]))
TailApply ==
  /\ tail(tl_cur)[1] = "Ok"
  /\ tl_cur' = tail(tl_cur)[2]
  /\ tl_k' = tl_k + 1
  /\ UNCHANGED <<tl_in, consVars, patVars, evalVars>>

TailNext == TailApply
SpecTail == TailInit /\ [][TailNext]_vars

\* number of DottedList constructors along the tail chain of a value
RECURSIVE DottedDepth(_)
DottedDepth(v) == IF v.k = "DottedList" THEN 1 + DottedDepth(v.r) ELSE 0

RECURSIVE CeilLog2(_)
CeilLog2(n) == IF n <= 1 THEN 0 ELSE 1 + CeilLog2((n + 1) \div 2)

\* C5: for a proper list v of length n and 0 <= k < n, head(tail^k(v)) = v[k]
\* and each of the k tail applications succeeds (so does the next one).
C5_HeadOfTails ==
  tl_k < Len(tl_in.es) =>
    /\ head(tl_cur) = Ok(tl_in.es[tl_k + 1])
    /\ tail(tl_cur)[1] = "Ok"

C5_Witness ==
  /\ tl_k >= 2 /\ tl_k < Len(tl_in.es)
  /\ tl_cur.k = "DottedList" /\ tl_cur.es = <<>>
  /\ head(tl_cur) = Ok(tl_in.es[tl_k + 1])

\* C6: for a proper list of length n >= 1, no tail^k (1 <= k <= n) has more
\* than 1 + ceil(log2(n)) DottedList constructors along its tail chain.
C6_TailDepth ==
  (tl_k >= 1 /\ Len(tl_in.es) >= 1) =>
    DottedDepth(tl_cur) <= 1 + CeilLog2(Len(tl_in.es))

C6_Witness ==
  /\ tl_k >= 1 /\ Len(tl_in.es) >= 8
  /\ DottedDepth(tl_cur) >= 3


(***************************************************************************)
(* Harness for Uncons: one cursor over a DottedList whose tail chain ends  *)
(* in a proper list, one over the flattened List, advanced together.       *)
(***************************************************************************)
\* the value with the given segment lengths: DottedList(seg1, DottedList(seg2, ... List(segm)))
RECURSIVE Chain(_, _)
Chain(segs, from) ==
  IF Len(segs) = 1 THEN List(Elems(from, segs[1]))
  ELSE DottedList(Elems(from, segs[1]), Chain(Tail(segs), from + segs[1]))

RECURSIVE SumSeq(_)
SumSeq(q) == IF q = <<>> THEN 0 ELSE q[1] + SumSeq(Tail(q))

Shapes ==
  {q \in UNION {[1..m -> 0..MaxConsLen] : m \in 1..3} : SumSeq(q) <= MaxConsLen}

ConsInit ==
  /\ EvalIdle /\ TailIdle /\ PatIdle
  /\ \E q \in Shapes:
       /\ uc_d = Uncons_from(Chain(q, 0))
       /\ uc_f = Uncons_from(List(Elems(0, SumSeq(q))))
  /\ uc_k = 0

\* u.uncons() on both cursors, while the flattened list has an element left
UnconsBoth ==
  /\ uncons(uc_f) # <<>>
  /\ uc_f' = uncons(uc_f)[2]
  /\ uc_d' = IF uncons(uc_d) # <<>> THEN uncons(uc_d)[2] ELSE uncons_cursor(uc_d)
  /\ uc_k' = uc_k + 1
  /\ UNCHANGED <<tailVars, patVars, evalVars>>

ConsNext == UnconsBoth
SpecUncons == ConsInit /\ [][ConsNext]_vars

(***************************************************************************)
(* Harness for pattern_match: one branch attempt, one iteration of the     *)
(* loop per step, resumed by the engine after each suspension with the     *)
(* truthiness of whatever the predicate returned.                          *)
(***************************************************************************)
PT(sp, ps) == PTest(sp, 0, ps)
PatPats ==
  {PSkip, PNumber(1), PT(1, <<PSkip>>), PT(1, <<PT(2, <<PAtom(0)>>)>>),
   PList(<<PT(1, <<PAtom(0)>>), PT(2, <<PNumber(1)>>)>>, None),
   PList(<<PSkip, PT(1, <<PSkip>>)>>, Some(1)),
   PDottedList(<<PT(1, <<PSkip>>)>>, PT(2, <<PAtom(0)>>)),
   PAnd(<<PT(1, <<PSkip>>), PT(2, <<PNumber(0)>>), PT(3, <<PSkip>>)>>),
   POr(<<PT(1, <<PNumber(5)>>), PT(2, <<PSkip>>)>>),
   PNot(<<PT(1, <<PSkip>>), PList(<<PT(2, <<PSkip>>)>>, Some(0))>>)}
PatInputs ==
  {Number(0), List(Elems(0, 2)), List(Elems(0, 3)),
   DottedList(Elems(0, 2), List(Elems(2, 1))), DottedList(Elems(0, 1), Number(1)),
   SpanV(FileSpan("main", 0), List(Elems(0, 2)))}

\* State::Match: the first state of a branch attempt
PatInit ==
  /\ EvalIdle /\ TailIdle /\ ConsIdle
  /\ pm_p \in PatPats
  /\ \E v \in PatInputs: pm_m = PM(<<>>, <<UNDEF>>, PsEval(pm_p, v))
  /\ pm_n = 0
  /\ pm_b \in Builds

\* one iteration of the loop of pattern_match
PatRun ==
  /\ pm_m.st.ps # "Return"
  /\ pm_m' = PatStep(pm_m, pm_b)
  /\ pm_n' = IF pm_m'.st.ps = "Return" /\ pm_m'.st.r.t = "TestPending"
             THEN pm_n + 1 ELSE pm_n
  /\ UNCHANGED <<pm_p, pm_b, tailVars, consVars, evalVars>>

\* Stack::TestPattern popped by State::Ret(ret): the match is resumed
PatResume ==
  /\ pm_m.st.ps = "Return" /\ pm_m.st.r.t = "TestPending"
  /\ \E b \in BOOLEAN: pm_m' = [pm_m EXCEPT !.st = PsRet(b)]
  /\ UNCHANGED <<pm_p, pm_n, pm_b, tailVars, consVars, evalVars>>

PatNext == PatRun \/ PatResume
SpecPat == PatInit /\ [][PatNext]_vars /\ WF_vars(PatRun) /\ WF_vars(PatResume)

UnconsHead(u) == IF uncons(u) = <<>> THEN <<>> ELSE <<uncons(u)[1]>>

\* C10: after the same number of uncons calls, uncons, exactly(n), at_least(n)
\* and is_list agree on a DottedList ending in a proper list and on the
\* flattened List, and no call on the DottedList overflows.
C10_Flattened ==
  /\ UnconsHead(uc_d) = UnconsHead(uc_f)
  /\ is_list(uc_d) = is_list(uc_f)
  /\ \A n \in 0..MaxCount:
       /\ exactly(uc_d, n) = exactly(uc_f, n) /\ ~exactly_panics(uc_d, n)
       /\ at_least(uc_d, n) = at_least(uc_f, n) /\ ~at_least_panics(uc_d, n)

(***************************************************************************)
(* Properties of the reduction engine.                                     *)
(***************************************************************************)
\* the run of the last item of the script has returned
Finished == todo = <<>> /\ active.s \in {"Done", "Error", "Panic"}

\* run is about to apply the procedure p to its evaluated arguments
Applying(t) ==
  /\ active.s = "App" /\ active.it = <<>>
  /\ unwrap(active.f).k = "Proc" /\ unwrap(active.f).p.t = t
  /\ SpecValid(ProcSpecOf(unwrap(active.f).p), Len(active.args))

\* the index of the MatchCont frame that holds the flag valid (0: none)
FrameOf(valid) ==
  IF \E j \in DOMAIN stack: stack[j].f = "MatchCont" /\ stack[j].valid = valid
  THEN CHOOSE j \in DOMAIN stack: stack[j].f = "MatchCont" /\ stack[j].valid = valid
  ELSE 0

\* the newest history entry of a match begun at stack depth d
MatchAt(d) ==
  LET I == {i \in DOMAIN hist: hist[i].kind = "match" /\ hist[i].depth = d} IN
  hist[CHOOSE i \in I: \A j \in I: j <= i]

\* the step is a tail call: a Lambda applied with a Ret frame on top
C1_Replaces ==
  (Applying("Lambda") /\ stack # <<>> /\ Top(stack).f = "Ret") =>
    /\ Len(stack') = Len(stack)
    /\ Pop(stack') = Pop(stack)
    /\ Top(stack').f = "Ret"
    /\ Top(stack').fsp = Top(stack).fsp
    /\ Top(stack').old = Top(stack).old
    /\ Top(stack').pos = unwrap(active.f).p.pos
    /\ Top(stack').code = unwrap(active.f).p.code

\* the step pops the Ret frame of an activation
C1_Restores ==
  (active.s = "Ret" /\ stack # <<>> /\ Top(stack).f = "Ret") =>
    LET h == DropMatches(hist, Len(stack)) IN
    /\ Top(h).kind = "call" /\ Top(h).depth = Len(stack) - 1
    /\ ctx' = Top(h).ctx
    /\ file' = Top(h).file

\* the control stack of (spin) and of (list (down n) x) stays below a depth
\* that does not depend on n
C1_Depth ==
  /\ script = ScriptSpin => Len(stack) <= 2
  /\ \A n \in 0..MaxLoop: script = ScriptDown(n) => Len(stack) <= 5

\* C1: applying a Lambda while the top of the control stack is a Ret frame
\* replaces that frame: the depth is unchanged, the frame keeps the caller's
\* file span and saved ctx and takes the callee's proc position and code; a
\* self-calling lambda runs at constant depth whatever the number of
\* iterations, and when the chain returns ctx and file are those of the
\* original non-tail caller.
C1_TailCall == [][C1_Replaces /\ C1_Restores]_vars /\ []C1_Depth

C1_Witness ==
  /\ active.s = "Ret" /\ stack # <<>> /\ Top(stack).f = "Ret"
  /\ Top(hist).kind = "call" /\ Top(hist).tails >= 2
  /\ Top(hist).file # file /\ Top(hist).ctx # ctx

\* C2: a MatchCont procedure whose flag is true, invoked from inside the
\* branch body (its frame is on the stack), discards the frames down to its
\* MatchCont frame and enters Match with the same scrutinee and exactly the
\* branches after the captured one, with ctx and file as they were when the
\* match started trying its branches.
C2_Step ==
  LET valid == unwrap(active.f).p.valid IN
  LET j == FrameOf(valid) IN
  (Applying("MatchCont") /\ flags[valid] /\ j # 0) =>
    LET E == MatchAt(j - 1) IN
    /\ active'.s = "Match"
    /\ active'.e = stack[j].e
    /\ active'.it = SubSeq(E.brs, E.tried + 1, Len(E.brs))
    /\ E.brs[E.tried].cont
    /\ stack' = SubSeq(stack, 1, j - 1)
    /\ ctx' = E.mctx
    /\ file' = E.mfile
C2_Reenter == [][C2_Step]_vars

C2_Witness ==
  /\ active.s = "Match" /\ hist # <<>> /\ Top(hist).resumed
  /\ Top(hist).depth >= 1 /\ Top(hist).bound >= 2
  /\ ctx = Top(hist).mctx /\ ctx # <<>> /\ file = "lib"

\* C3: a continuation whose MatchCont frame has left the stack (it was
\* invoked, its branch body returned, or the frame was discarded by the
\* unwinding for another continuation) raises "continuation has expired"
\* when invoked and does not enter Match.
C3_Step ==
  (Applying("MatchCont") /\ FrameOf(unwrap(active.f).p.valid) = 0) =>
    /\ active'.s = "Error"
    /\ active'.msg = "continuation has expired"
C3_SingleShot == [][C3_Step]_vars

C3_Witness ==
  /\ active.s = "Error" /\ active.msg = "continuation has expired"
  /\ script = ScriptOuter /\ flags = <<FALSE, FALSE>>

C7_Map ==
  Finished =>
    /\ \A xs \in MapLists: script = ScriptMap1(xs) =>
         active = SDone(List([i \in DOMAIN xs |-> Number(xs[i] + 10)]))
    /\ \A xs \in MapLists, ys \in MapLists:
         (script = ScriptMap2(xs, ys) /\ Len(xs) = Len(ys)) =>
           active = SDone(List([i \in DOMAIN xs |-> Number(xs[i] + ys[i])]))

\* a1 - a2 - ... - ak
RECURSIVE LeftSub(_)
LeftSub(as) == IF Len(as) = 1 THEN as[1] ELSE LeftSub(Pop(as)) - Top(as)

\* C8: (- x) is -x and (- a1 ... ak) is a1 - a2 - ... - ak.
C8_Sub ==
  Finished =>
    \A as \in SubArgs: script = ScriptSub(as) =>
      active = SDone(Number(IF Len(as) = 1 THEN 0 - as[1] ELSE LeftSub(as)))

\* the number of elements of a proper list seen through DottedList tails
\* (-1: not a proper list)
RECURSIVE ProperLen(_)
ProperLen(v) ==
  CASE unwrap(v).k = "List" -> Len(unwrap(v).es)
    [] unwrap(v).k = "DottedList" ->
         IF ProperLen(unwrap(v).r) < 0 THEN -1
         ELSE Len(unwrap(v).es) + ProperLen(unwrap(v).r)
    [] OTHER -> -1

\* C9: a List pattern of m sub-patterns with opt_min = Some(n) matches a
\* value exactly when it is a proper list of at least m + n elements (whose
\* first m elements match; here every sub-pattern is Skip).
C9_ListPattern ==
  Finished =>
    \A v \in AtLeastVals, mm \in 0..2, n \in 0..2:
      script = ScriptAtLeast(v, mm, n) =>
        active = SDone(Atom(IF ProperLen(v) >= mm + n THEN "yes" ELSE "no"))

(***************************************************************************)
(* Properties of the pattern matcher.                                      *)
(***************************************************************************)
\* The meaning of a pattern over Skip, Atom, QuoteAtom, And and Or, read left
\* to right with short circuit: whether it matches v, and the content of the
\* variable slot afterwards (var before).
RECURSIVE RefMatch(_, _, _), RefAll(_, _, _), RefAny(_, _, _)
RefMatch(p, v, var) ==
  CASE p.p = "Skip" -> [b |-> TRUE, var |-> var]
    [] p.p = "Atom" -> [b |-> TRUE, var |-> v]
    [] p.p = "QuoteAtom" -> [b |-> v = Atom(p.a), var |-> var]
    [] p.p = "And" -> RefAll(p.ps, v, var)
    [] p.p = "Or" -> RefAny(p.ps, v, var)
RefAll(ps, v, var) ==
  IF ps = <<>> THEN [b |-> TRUE, var |-> var]
  ELSE LET r == RefMatch(Head(ps), v, var) IN
       IF r.b THEN RefAll(Tail(ps), v, r.var) ELSE r
RefAny(ps, v, var) ==
  IF ps = <<>> THEN [b |-> FALSE, var |-> var]
  ELSE LET r == RefMatch(Head(ps), v, var) IN
       IF r.b THEN r ELSE RefAny(Tail(ps), v, r.var)

\* C11: And(ps) matches iff every pattern of ps matches (true for empty ps),
\* Or(ps) iff at least one does (false for empty ps); the sub-patterns are
\* tried left to right and none is tried after the first failing one (And)
\* or the first succeeding one (Or), so a binder behind that point leaves its
\* variable unbound.
C11_AndOr ==
  Finished =>
    \A p \in AndOrPats, v \in PatVals:
      script = ScriptPat(p, v) =>
        LET r == RefMatch(p, v, UNDEF) IN
        active = SDone(IF r.b THEN r.var ELSE Atom("no"))

C11_Witness ==
  /\ Finished
  /\ script = ScriptPat(POr(<<PAnd(<<PQuoteAtom("x"), PAtom(0)>>), PSkip>>), Atom("y"))
  /\ active = SDone(UNDEF)

\* C12 as stated: Not(ps) matches v iff not all of the patterns of ps match v.
C12_NotAll ==
  Finished =>
    \A p \in NotPats, v \in PatVals:
      script = ScriptPat(p, v) =>
        (active # SDone(Atom("no"))) = ~RefAll(p.ps, v, UNDEF).b

\* C12 (amended): Not(ps) matches v iff none of the patterns of ps matches v.
C12_NotAny ==
  Finished =>
    \A p \in NotPats, v \in PatVals:
      script = ScriptPat(p, v) =>
        (active # SDone(Atom("no"))) = ~RefAny(p.ps, v, UNDEF).b

C12_Witness ==
  /\ Finished
  /\ script = ScriptPat(PNot(<<PQuoteAtom("x"), PSkip>>), Atom("y"))
  /\ active = SDone(Atom("no"))

(***************************************************************************)
(* Properties of definitions and of the global binding table.              *)
(***************************************************************************)
\* the Def frame on top of the stack when a value returns to it
DefReturns == active.s = "Ret" /\ stack # <<>> /\ Top(stack).f = "Def"

C13_Step ==
  (DefReturns /\ Len(stack) = 1) =>
    LET x == Top(stack).x IN
    /\ active'.s = "Ret" /\ active'.v = UNDEF
    /\ stack' = <<>>
    /\ ctx' = ctx
    /\ lisp_ctx' =
         IF x = None THEN lisp_ctx
         ELSE [lisp_ctx EXCEPT ![x[1][2]] =
                 Some([fsp |-> Some(FileSpan(file, x[1][1])), val |-> active.v])]

\* C13: a Def with binding (sp, a) whose value v returns with no enclosing
\* frame binds lisp_ctx[a] to (Some(fspan(sp)), v), leaves the other atoms
\* and ctx unchanged and returns Undef; a Def without binding in that
\* position changes nothing and returns Undef.
C13_TopLevelDef == [][C13_Step]_vars

C13_Witness ==
  /\ script = ScriptOverride /\ Finished
  /\ lisp_ctx["+"] # None
  /\ lisp_ctx["+"][1].fsp = Some(FileSpan("lib", 174))
  /\ lisp_ctx["+"][1].val.k = "Proc" /\ lisp_ctx["+"][1].val.p.t = "Lambda"
  /\ lisp_ctx["-"] = None

\* a lookup of the global a
Looks(a) == active.s = "Eval" /\ active.ir.ir = "Global" /\ active.ir.a = a

C15_Step ==
  \A a \in Atoms:
    /\ (Looks(a) /\ lisp_ctx[a] = None /\ a \in BuiltinNames) =>
         /\ active'.s = "Ret" /\ active'.v = Proc(Builtin(a))
         /\ lisp_ctx' = [lisp_ctx EXCEPT ![a] =
                           Some([fsp |-> None, val |-> Proc(Builtin(a))])]
    /\ (Looks(a) /\ lisp_ctx[a] = None /\ a \notin BuiltinNames) =>
         /\ active'.s = "Error" /\ active'.msg = "Reference to unbound variable"
         /\ lisp_ctx' = lisp_ctx
    /\ (Looks(a) /\ lisp_ctx[a] # None) =>
         /\ active'.s = "Ret" /\ active'.v = lisp_ctx[a][1].val
         /\ lisp_ctx' = lisp_ctx
    /\ (lisp_ctx[a] # None /\ lisp_ctx'[a] # lisp_ctx[a]) =>
         /\ DefReturns /\ Len(stack) = 1
         /\ Top(stack).x # None /\ Top(stack).x[1][2] = a

\* C15: the lookup of an unbound atom that names a builtin returns
\* Proc(Builtin) and caches it in lisp_ctx without a span, and the binding of
\* an atom changes only when a top-level definition overrides it; an unbound
\* atom that names no builtin ends the run with "Reference to unbound
\* variable" and leaves the table unchanged; a bound atom yields its value
\* and leaves the table unchanged.
C15_GlobalCache == [][C15_Step]_vars

C15_Witness ==
  /\ script = ScriptOverride /\ Len(todo) = 2 /\ active.s = "Done"
  /\ lisp_ctx["+"] = Some([fsp |-> None, val |-> Proc(Builtin("+"))])
  /\ active.v = Number(3)

C14_Step ==
  (DefReturns /\ Len(stack) >= 2 /\ supports_def(Top(Pop(stack)))) =>
    /\ ctx' = Append(ctx, active.v)
    /\ stack' = Pop(Pop(stack)) \o <<FDrop, Top(Pop(stack))>>
    /\ active'.s = "Ret" /\ active'.v = UNDEF
    /\ lisp_ctx' = lisp_ctx

\* C14 (the definition): a Def whose value returns directly under an App2
\* or Eval frame pushes the value onto ctx as the newest local and places a
\* Drop_ frame beneath the enclosing frame.
C14_LocalDef == [][C14_Step]_vars

\* C14 (the balance): when an application or block in which local
\* definitions were made delivers its result, |ctx| is what it was when the
\* application or block began.
C14_Restored ==
  active.s = "Ret" =>
    \A i \in DOMAIN blocks:
      (blocks[i].depth = Len(stack) /\ blocks[i].defs > 0) =>
        Len(ctx) = blocks[i].n

\* C14: both parts
C14_LocalDefDropped == C14_LocalDef /\ []C14_Restored

C14_Witness ==
  /\ script = ScriptLocal /\ active.s = "Ret" /\ file = "lib"
  /\ blocks # <<>> /\ Top(blocks).depth = Len(stack) /\ Top(blocks).defs = 2
  /\ Len(ctx) = 1 /\ Top(blocks).n = 1
  /\ unwrap(active.v) = List(<<Number(1), Number(2), Number(3)>>)

(***************************************************************************)
(* Properties of procedure application.                                    *)
(***************************************************************************)
\* a non-tail application of a Lambda: the new ctx and the pushed Ret frame
C16_Calls ==
  (Applying("Lambda") /\ ~(stack # <<>> /\ Top(stack).f = "Ret")) =>
    LET p == unwrap(active.f).p
        args == active.args
        n == p.spec.n IN
    /\ p.spec.t = "Exact" => ctx' = p.env \o args
    /\ p.spec.t = "AtLeast" =>
         /\ ctx' = p.env \o SubSeq(args, 1, n) \o <<List(SubSeq(args, n + 1, Len(args)))>>
         /\ Len(ctx') = Len(p.env) + n + 1
    /\ Pop(stack') = stack
    /\ Top(stack').f = "Ret"
    /\ Top(stack').old = ctx
    /\ Top(stack').fsp = FileSpan(file, active.sp1)

\* the return through a Ret frame: ctx and file as the frame saved them
C16_Returns ==
  (active.s = "Ret" /\ stack # <<>> /\ Top(stack).f = "Ret") =>
    /\ ctx' = Top(stack).old
    /\ file' = Top(stack).fsp.file
    /\ stack' = Pop(stack)
    /\ active'.s = "Ret" /\ active'.v = active.v

\* C16: a non-tail application of a Lambda runs its body with ctx = env ++
\* args (Exact(n)) or env ++ args[0..n] ++ [List(args[n..])] (AtLeast(n), so
\* |ctx| = |env| + n + 1 even with exactly n arguments); the caller's ctx and
\* file are saved in the pushed Ret frame and restored from it on return.
C16_LambdaCall == [][C16_Calls /\ C16_Returns]_vars

C16_Witness ==
  /\ script = ScriptVar(<<N(1)>>) /\ active.s = "Eval" /\ file = "lib"
  /\ ctx = <<Number(5), Number(1), NIL>>
  /\ stack # <<>> /\ Top(stack).f = "Ret"
  /\ Top(stack).old = <<Number(9)>> /\ Top(stack).fsp.file = "main"

\* the elements of a proper list, seen through Span and Ref wrappers and
\* through DottedList tails; an Err when the value does not end in a List
RECURSIVE ProperElems(_)
ProperElems(v) ==
  LET u == unwrap(v) IN
  CASE u.k = "List" -> Ok(u.es)
    [] u.k = "DottedList" ->
         LET r == ProperElems(u.r) IN
         IF r[1] = "Ok" THEN Ok(u.es \o r[2]) ELSE r
    [] OTHER -> Err("apply: last argument is not a list")

C17_Step ==
  (Applying("Builtin") /\ unwrap(active.f).p.f = "apply") =>
    LET args == active.args
        r == ProperElems(Top(args)) IN
    IF r[1] = "Ok"
    THEN /\ active'.s = "App" /\ active'.f = args[1] /\ active'.it = <<>>
         /\ active'.args = SubSeq(args, 2, Len(args) - 1) \o r[2]
    ELSE active'.s = "Error" /\ active'.msg = "apply: last argument is not a list"

\* C17: Apply(f, a1..ak, tail) applies f to a1..ak followed by the elements
\* of tail whenever tail, seen through Span and Ref wrappers and DottedList
\* tails, is a proper list; it raises "apply: last argument is not a list"
\* only when the unwrapped tail does not end in a proper list.
C17_Apply == [][C17_Step]_vars

\* C18: the builtins Not, And and Or use the truthiness of If: for every x,
\* Bool(false) wrapped in a Span or held in a Ref included, (not x) is #t
\* exactly when (if x a b) takes its else branch, and (not (not x)), (and x)
\* and (or x) are #t exactly when it takes its then branch.
C18_Truthiness ==
  \A x \in Conds:
    (script = ScriptNot(x) /\ Finished) =>
      /\ active.s = "Done"
      /\ LET r == active.v.es IN
         /\ r[5] \in {Atom("then"), Atom("else")}
         /\ (r[1] = Bool(TRUE)) <=> (r[5] = Atom("else"))
         /\ (r[2] = Bool(TRUE)) <=> (r[5] = Atom("then"))
         /\ (r[3] = Bool(TRUE)) <=> (r[5] = Atom("then"))
         /\ (r[4] = Bool(TRUE)) <=> (r[5] = Atom("then"))

\* the steps of IR::App and IR::List: the head first, then the next
\* unevaluated expression, each value appended to those before it
C19_Step ==
  /\ (active.s = "Eval" /\ active.ir.ir = "App") =>
       /\ active' = SEval(active.ir.f)
       /\ stack' = Append(stack, FApp(active.ir.sp1, active.ir.sp2, active.ir.es))
  /\ (active.s = "Ret" /\ stack # <<>> /\ Top(stack).f = "App") =>
       /\ active' = SApp(Top(stack).sp1, Top(stack).sp2, active.v, <<>>, Top(stack).es)
       /\ stack' = Pop(stack)
  /\ (active.s = "App" /\ active.it # <<>>) =>
       /\ active' = SEval(Head(active.it))
       /\ stack' = Append(stack, FApp2(active.sp1, active.sp2, active.f, active.args,
                                       Tail(active.it)))
  /\ (active.s = "Ret" /\ stack # <<>> /\ Top(stack).f = "App2") =>
       /\ active' = SApp(Top(stack).sp1, Top(stack).sp2, Top(stack).fn,
                         Append(Top(stack).vec, active.v), Top(stack).it)
       /\ stack' = Pop(stack)
  /\ (active.s = "Eval" /\ active.ir.ir = "List") =>
       active' = SList(active.ir.sp, <<>>, active.ir.ls) /\ stack' = stack
  /\ (active.s = "List" /\ active.it # <<>>) =>
       /\ active' = SEval(Head(active.it))
       /\ stack' = Append(stack, FList(active.sp, active.vec, Tail(active.it)))
  /\ (active.s = "Ret" /\ stack # <<>> /\ Top(stack).f = "List") =>
       /\ active' = SList(Top(stack).sp, Append(Top(stack).vec, active.v), Top(stack).it)
       /\ stack' = Pop(stack)

\* the marks left in r by ScriptOrder, newest first, and its results
C19_Marks ==
  (script = ScriptOrder /\ active.s = "Done") =>
    /\ Len(todo) = 2 => active.v = List(<<Atom("a"), Atom("b")>>)
    /\ Len(todo) = 1 => unwrap(active.v) = List(<<Atom("c"), Atom("d")>>)
    /\ Len(todo) = 0 =>
         ProperElems(active.v) = Ok(<<Number(4), Number(3), Number(2), Number(1), Number(0)>>)

\* C19: in App(f, [e1..en]) f is reduced first, then e1..en strictly in
\* order, and the procedure is applied only after all of them have returned,
\* to their values in source order; the elements of a list literal are
\* reduced in order likewise.
C19_Order == [][C19_Step]_vars /\ []C19_Marks

C19_Witness ==
  /\ script = ScriptOrder /\ Finished /\ active.s = "Done"
  /\ ProperElems(active.v) = Ok(<<Number(4), Number(3), Number(2), Number(1), Number(0)>>)

(***************************************************************************)
(* Properties of the branches of a match.                                  *)
(***************************************************************************)
\* a branch pattern fails: the next branch is tried with the control stack
\* and ctx of the moment the failed branch was first tried, and starts from
\* an empty pattern stack and unbound variables; a branch that matches adds
\* only its own variables to that ctx
C20_Step ==
  /\ (active.s = "Pattern" /\ active'.s = "Match") =>
       /\ hist # <<>> /\ Top(hist).kind = "match"
       /\ stack' = Top(hist).tstack /\ ctx' = Top(hist).tctx
       /\ active' = SMatch(active.sp, active.e, active.it)
  /\ (active.s = "Match" /\ active.it # <<>>) =>
       /\ active'.s = "Pattern" /\ active'.pstack = <<>>
       /\ active'.vars = [i \in 1..Head(active.it).vars |-> UNDEF]
       /\ stack' = stack /\ ctx' = ctx
  /\ (active.s = "Pattern" /\ active'.s = "Eval") =>
       /\ SubSeq(ctx', 1, Len(ctx)) = Top(hist).tctx
       /\ Len(ctx') = Len(ctx) + active.br.vars + (IF active.br.cont THEN 1 ELSE 0)

\* the results of ScriptTent: the second branch sees its own binding only
C20_Results ==
  (Finished /\ active.s = "Done") =>
    /\ script = ScriptTent(List(<<Number(1), Number(0), Atom("y")>>), TRUE) =>
         unwrap(active.v) = List(<<UNDEF, List(<<Number(0), Atom("y")>>)>>)
    /\ script = ScriptTent(List(<<Number(1), Number(0), Atom("x")>>), FALSE) =>
         unwrap(active.v) = List(<<UNDEF, List(<<Number(0), Atom("x")>>)>>)

\* C20: the bindings made while a branch pattern is matched are tentative:
\* when the pattern fails, with or without calls of Test predicates, the
\* next branch is tried with ctx and the control stack exactly as they were
\* when the failed branch was first tried, and no variable bound in the
\* failed attempt is visible to the next branch or its body.
C20_Tentative == [][C20_Step]_vars /\ []C20_Results

C20_Witness ==
  /\ script = ScriptTent(List(<<Number(1), Number(0), Atom("y")>>), TRUE)
  /\ active.s = "Match" /\ Len(active.it) = 2
  /\ hist # <<>> /\ Top(hist).kind = "match" /\ Top(hist).tried = 1
  /\ stack = Top(hist).tstack /\ ctx = Top(hist).tctx
  /\ Len(ctx) = 1 /\ Len(stack) = 1

(***************************************************************************)
(* Properties of diagnostics.                                              *)
(***************************************************************************)
\* the Ret frames of a control stack, from the top down
RECURSIVE RetFrames(_)
RetFrames(stk) ==
  IF stk = <<>> THEN <<>>
  ELSE IF Top(stk).f = "Ret" THEN <<Top(stk)>> \o RetFrames(Pop(stk))
       ELSE RetFrames(Pop(stk))

\* the label of a procedure position
PosLabel(pos) == IF pos.t = "Named" THEN LabelNamed(pos.a) ELSE LabelFn

\* the step raises an error
Raises == active.s \notin {"Error", "Idle", "Done", "Panic"} /\ active'.s = "Error"

C21_Step ==
  Raises =>
    LET R == RetFrames(stack') IN
    /\ Len(active'.info) = Len(R)
    /\ \A j \in DOMAIN R: active'.info[j][2] = PosLabel(R[j].pos)

\* C21: the stack trail of a diagnostic has one entry for each Ret frame on
\* the control stack when the error is raised, from the top frame down, and
\* the entry of a frame carries the label of that frame's procedure
\* position: "name()" for Named, "[fn]" for Unnamed.
C21_Trail == [][C21_Step]_vars

\* the span handed to err / throw! by the step that raises the error
C22_Step ==
  Raises =>
    /\ (active.s = "Eval" /\ active.ir.ir = "Global") => active'.pos = active.ir.sp
    /\ active.s = "Match" => active'.pos = active.sp
    /\ active.s = "MapProc" => active'.pos = active.sp1
    /\ (active.s = "App" /\ active'.msg # "continuation has expired") =>
         active'.pos = active.sp1
    /\ (active.s = "App" /\ active'.msg = "continuation has expired") =>
         active'.pos = active.sp2

\* C22: the primary span of the diagnostic is the span at which the error
\* was raised, whatever the number of Ret frames on the control stack.
C22_Pos == [][C22_Step]_vars

(***************************************************************************)
(* Properties of list construction.                                        *)
(***************************************************************************)
C23_Step ==
  (active.s = "Ret" /\ stack # <<>> /\ Top(stack).f = "DottedList2") =>
    LET accum == Top(stack).vec
        v == active.v IN
    /\ active'.s = "Ret"
    /\ active'.v =
         IF accum = <<>> THEN v
         ELSE CASE v.k = "List" -> List(accum \o v.es)
                [] v.k = "DottedList" -> DottedList(accum \o v.es, v.r)
                [] OTHER -> DottedList(accum, v)

\* C23: a dotted-list literal whose evaluated prefix accum is not empty and
\* whose tail expression returns v yields List(accum ++ es) when v is
\* List(es), DottedList(accum ++ es, t) when v is DottedList(es, t), and
\* DottedList(accum, v) otherwise, whether or not v is referenced elsewhere;
\* with an empty accum it yields v.
C23_DottedFlatten == [][C23_Step]_vars

(***************************************************************************)
(* Properties of continuations and of ctx.                                 *)
(***************************************************************************)
\* the values the active state owns
ActiveVals ==
  CASE active.s \in {"Ret", "Done"} -> <<active.v>>
    [] active.s = "List" -> active.vec
    [] active.s = "DottedList" -> active.vec
    [] active.s = "App" -> <<active.f>> \o active.args
    [] active.s = "Match" -> <<active.e>>
    [] active.s = "Pattern" ->
         <<active.e>> \o active.vars \o PatStackVals(active.pstack)
           \o (CASE active.st.ps \in {"Eval", "Binary"} -> <<active.st.e>>
                 [] active.st.ps = "List" -> <<active.st.u.v>>
                 [] OTHER -> <<>>)
    [] active.s = "MapProc" -> <<active.f>> \o UnconsVals(active.us) \o active.vec
    [] OTHER -> <<>>

\* the flags of the MatchCont procedure values of the state
HeldFlags ==
  FlagsInSeq(ActiveVals \o ctx \o StackVals(stack), refs, Len(refs))
    \cup UNION {FlagsIn(v, refs, Len(refs)) : v \in BoundVals(lisp_ctx)}

\* the MatchCont frames of the control stack that hold the flag v
FramesOf(v) == {j \in DOMAIN stack: stack[j].f = "MatchCont" /\ stack[j].valid = v}

RECURSIVE DropsAbove(_)
DropsAbove(stk) ==
  IF stk = <<>> \/ Top(stk).f = "Ret" THEN 0
  ELSE (IF Top(stk).f = "Drop_" THEN 1 ELSE 0) + DropsAbove(Pop(stk))

\* the lambda activations in progress, oldest first
Calls == SelectSeq(hist, LAMBDA h: h.kind = "call")

\* |ctx| when the innermost activation began its body
BodyBase == IF Calls = <<>> THEN 0 ELSE Top(Calls).base

\* C25: in every state of a run |ctx| is the length ctx had when the
\* innermost active lambda activation began its body (0 when no Ret frame is
\* on the stack) plus the number of Drop_ frames above the topmost Ret frame.
C25_CtxLen ==
  active.s \notin {"Idle", "Done", "Error", "Panic"} =>
    /\ Len(Calls) = Len(RetFrames(stack))
    /\ Len(ctx) = BodyBase + DropsAbove(stack)

\* in the body of f: two pattern variables, the continuation and a local
\* definition above the argument
C25_Witness ==
  /\ active.s = "Eval" /\ Len(Calls) = 1 /\ file = "lib"
  /\ BodyBase = 1 /\ DropsAbove(stack) = 4 /\ Len(ctx) = 5

\* the Eval frames of a block whose expressions have all been started: the
\* block's last expression is being evaluated
LastOfBlock(stk) ==
  {i \in 2..Len(stk) : stk[i].f = "Eval" /\ stk[i].it = <<>> /\ stk[i - 1].f = "Ret"}

\* C26: a call in final position of a block that forms a lambda body is a tail
\* call: while the last expression of the block is evaluated no Eval frame of
\* the block lies above the activation's Ret frame, and a lambda whose body is
\* a block ending in a call to itself runs at a depth that does not depend on
\* the number of iterations.
C26_BlockTail ==
  /\ active.s \in {"Eval", "App"} => LastOfBlock(stack) = {}
  /\ \A n \in 0..MaxLoop: script = ScriptBlock(n) => Len(stack) <= 4

\* C27: the predicate of a Test(sp, i, ps) pattern is applied to the value
\* that is matched against the Test pattern (the Binary frame the Test pushed
\* holds it), not to the whole scrutinee of the match.
C27_TestArg ==
  (active.s = "App" /\ active.it = <<>> /\ stack # <<>> /\ Top(stack).f = "TestPattern") =>
    active.args = <<Top(Top(stack).pstack).e>>

C28_Step ==
  (DefReturns /\ Len(stack) >= 2 /\ ~supports_def(Top(Pop(stack)))) =>
    /\ stack' = Pop(stack)
    /\ ctx' = ctx
    /\ lisp_ctx' = lisp_ctx
    /\ active'.s = "Ret" /\ active'.v = UNDEF

\* C28: a Def whose value returns while the frame beneath it is neither App2
\* nor Eval (a Ret, If, List, Def, Drop_, Match or DottedList frame)
\* discards the value: the enclosing frame stays on the stack as it
\* was, ctx and the global bindings are unchanged, no Drop_ frame is pushed
\* and Undef is returned.
C28_DefDiscarded == [][C28_Step]_vars

\* the value 3 of (def y 3) has returned under the List frame of
\* (list (def y 3) a)
C28_Witness ==
  /\ script = ScriptDefIn(ListIR(443, <<DefY(N(3)), Local(0)>>))
  /\ active.s = "Ret" /\ active.v = UNDEF
  /\ stack # <<>> /\ Top(stack).f = "List" /\ Top(stack).vec = <<>>
  /\ ctx = <<Number(7)>>

\* number of Test nodes of a pattern
RECURSIVE TestCount(_)
SumTests(ps) ==
  LET F[i \in 0..Len(ps)] == IF i = 0 THEN 0 ELSE F[i - 1] + TestCount(ps[i]) IN F[Len(ps)]
TestCount(p) ==
  CASE p.p = "Test" -> 1 + SumTests(p.ps)
    [] p.p \in {"List", "And", "Or", "Not"} -> SumTests(p.ps)
    [] p.p = "DottedList" -> SumTests(p.ps) + TestCount(p.r)
    [] OTHER -> 0

PatReturned == pm_m.st.ps = "Return"
PatOutcome ==
  PatReturned =>
    \/ pm_m.st.r.t = "TestPending"
    \/ pm_m.st.r.t = "Ok" /\ pm_m.stack = <<>>

\* C29: pattern_match terminates: from every state of the loop, the first
\* and the one after each resumption, it returns, with Ok(result) and an
\* empty pattern stack or with TestPending, and a branch attempt on a pattern
\* with t Test nodes suspends at most t times.
C29_Terminates ==
  /\ (~PatReturned) ~> PatReturned
  /\ []PatOutcome
  /\ [](pm_n <= TestCount(pm_p))

\* the part of C29 that does not concern the outcome
C29_Bounded == ((~PatReturned) ~> PatReturned) /\ [](pm_n <= TestCount(pm_p))

====
